---- MODULE Spec2Model ----
(***************************************************************************)
(* Model of the Mr. Car quotation backend: the pricing formula engine      *)
(* (execution/pricing_engine.py), the daily quota gate                     *)
(* (execution/rate_limiter.py), the valuation request handler              *)
(* (app.py, get_market_price), the plate resolver (app.py, get_vehicle,    *)
(* over execution/vehicle_lookup.py), the market price resolver            *)
(* (execution/scrape_market_prices.py, search_market_price), the valuation *)
(* provider (execution/gemini_valuation.py, get_vehicle_valuation) and the *)
(* browser plate providers (execution/scrape_patentechile.py and           *)
(* execution/scrape_volanteomaleta.py, get_car_info_by_plate).             *)
(*                                                                         *)
(* A text that the code takes apart (a plate, a model name, a page) is the *)
(* sequence of its characters; a text it only passes on is a string.       *)
(*                                                                         *)
(* Python values: None is the empty tuple, a value v that may also be None *)
(* is the 1-tuple <<v>>, so that the two can be compared.  A float rate is *)
(* the exact fraction <<numerator, denominator>> of its decimal literal;   *)
(* products are kept as exact fractions until round() or int() is applied. *)
(***************************************************************************)
EXTENDS Integers, Sequences, FiniteSets, TLC

VARIABLES
    market_price,   \* pricing engine: the argument of calculate_pricing
    pricing,        \* pricing engine: <<the dict calculate_pricing returned>>, None before the call
    limit,          \* RateLimiter.limit
    supabase,       \* RateLimiter.supabase is a client (TRUE) or None (FALSE)
    clock,          \* the calendar day datetime.date.today() returns
    api_usage,      \* table api_usage: day -> the set of the counts of the rows of that day
    pc,             \* per caller: where its call of check_and_increment stands
    today,          \* per caller: the local `today` of its call (0 outside a call)
    current_count,  \* per caller: the local current_count of its call
    returned,       \* <<the call of check_and_increment that ended last>>, None before it
    admitted,       \* history: day -> the calls of that day that returned True
    raced,          \* history: day -> the calls of that day in flight together with another
    counted,        \* history: the days whose counts admitted and raced are kept
    racing,         \* history: per caller, its call was in flight together with another
    max_in_flight,  \* history: the most calls ever in flight at one time
    failures,       \* history: the store operations that have failed so far
    args,           \* get_market_price: the query parameters make, model, year
    handler_pc,     \* get_market_price: where the handler stands
    valuation,      \* get_market_price: what get_vehicle_valuation returned or raised
    http,           \* get_market_price: <<the response sent>>, None before it
    trace,          \* history: the functions get_market_price has called, in order
    plate_arg,      \* get_vehicle: the <plate> of the request path
    vehicle_db,     \* vehicle_lookup._vehicle_db: plate -> make, model, year
    sites,          \* what patentechile.com and volanteomaleta.com hold on the plate
    lookups,        \* history: the plate providers get_vehicle has called, in order
    vehicle_http,   \* get_vehicle: <<the response sent>>, None before it
    query,          \* search_market_price: the arguments make, model, year
    strategy,       \* search_market_price: the strategy the call stands at
    driver,         \* search_market_price: the browser is not started, open or quit
    locals,         \* search_market_price: the locals make_lower, model_url, model_simple
    result,         \* search_market_price: the dict result
    listings,       \* search_market_price: the texts of the listings of the MercadoLibre page
    prices,         \* search_market_price: the list prices of strategy 3
    fetched,        \* history: the URLs handed to driver.get, in order
    yields,         \* history: per strategy run, its source and its candidates or its failure
    page_text,      \* the price parser: the text of a page
    parses,         \* the price parser: the candidates of each parse of page_text
    model_arg,      \* the model name normalizer: the model of the first call
    canonical,      \* the model name normalizer: what each call returned, each fed to the next
    api_key,        \* get_vehicle_valuation: GOOGLE_API_KEY or API_KEY is set
    response,       \* get_vehicle_valuation: <<what generate_content returned>>, None before it
    gemini_pc,      \* get_vehicle_valuation: where the call stands
    valued,         \* get_vehicle_valuation: <<what the call returned or raised>>, None before it
    parsed,         \* get_vehicle_valuation: <<the local data>>, None while json.loads has not returned
    stack_depth,    \* get_vehicle_valuation: the place of its frame on the stack of the interpreter
    scraper,        \* the browser plate providers: the module whose get_car_info_by_plate runs
    scrape_plate,   \* the browser plate providers: the argument plate
    scrape_pc,      \* the browser plate providers: where the call stands
    browser,        \* the browser plate providers: the driver is not started, open or quit
    quits,          \* history: the calls of driver.quit() so far
    table,          \* the browser plate providers: <<the rows of the results table>>, None without one
    scraped,        \* the browser plate providers: the dict result
    scrape_out      \* the browser plate providers: <<what the call returned or raised>>, None before

pricingVars == <<market_price, pricing>>
quotaVars == <<limit, supabase, clock, api_usage, pc, today, current_count, returned,
               admitted, raced, counted, racing, max_in_flight, failures>>
handlerVars == <<args, handler_pc, valuation, http, trace>>
plateVars == <<plate_arg, vehicle_db, sites, lookups, vehicle_http>>
marketVars == <<query, strategy, driver, locals, result, listings, prices, fetched, yields>>
parserVars == <<page_text, parses>>
normalizerVars == <<model_arg, canonical>>
valuationVars == <<api_key, response, gemini_pc, valued, parsed, stack_depth>>
scraperVars == <<scraper, scrape_plate, scrape_pc, browser, quits, table, scraped, scrape_out>>
resolverVars == <<plateVars, marketVars, parserVars>>
vars == <<pricingVars, quotaVars, handlerVars, resolverVars, normalizerVars, valuationVars, scraperVars>>

----------------------------------------------------------------------------
(* Python values *)

None == <<>>
PyInt(v) == <<v>>
IsNone(x) == x = None
Val(x) == x[1]

\* Python truthiness of an optional int: None and 0 are falsy.
Truthy(x) == ~IsNone(x) /\ Val(x) # 0

\* `not x or x <= 0` for an optional int (the `or` is not evaluated past a
\* falsy x).
NotPositive(x) == IF ~Truthy(x) THEN TRUE ELSE Val(x) <= 0

Max(a, b) == IF a >= b THEN a ELSE b

----------------------------------------------------------------------------
(* Bounds of the checked inputs *)

\* market prices k * 10000 + d, d in -1..1 (the tier threshold, the fixed fee,
\* the rounding ties and their neighbours), and k * 9973 (every remainder
\* modulo 20000 and modulo 100000), for k in 0..MaxPriceK
MaxPriceK == 10000

PriceInputs ==
    {None}
    \cup { PyInt(k * 10000 + d) : k \in 0..MaxPriceK, d \in {-1, 0, 1} }
    \cup { PyInt(k * 9973) : k \in 0..MaxPriceK }

\* RateLimiter(limit) is constructed with a limit in 0..MaxLimit
MaxLimit == 2
\* the calendar runs over the days 1..MaxDay
MaxDay == 2
\* calls are started on a day as long as fewer than MaxAdmitted were admitted on it
MaxAdmitted == 5

\* at most MaxFailures store operations fail
MaxFailures == 1

\* the callers of check_and_increment: two request threads
Callers == {1, 2}
Days == 1..MaxDay

----------------------------------------------------------------------------
(* execution/pricing_engine.py *)

\* 0.52 = 13/25
PURCHASE_MULTIPLIER == <<13, 25>>
CONSIGNMENT_THRESHOLD == 8000000
\* 0.05355 = 1071/20000
HIGH_TIER_TOTAL_COMMISSION == <<1071, 20000>>
LOW_TIER_FIXED_FEE == 428400

\* Python 3 round() of the non-negative fraction num/den: to the nearest
\* integer, a tie going to the even neighbour.
PyRound(num, den) ==
    LET q == num \div den
        r == num % den
    IN  IF 2 * r > den \/ (2 * r = den /\ q % 2 = 1) THEN q + 1 ELSE q

\* round_to_hundred_thousand with int() in place of round(): always rounds down.
round_to_hundred_thousand_Trunc(value) ==
    (value[1] \div (value[2] * 100000)) * 100000

\* round(value / 100000) * 100000 for value = <<num, den>>
round_to_hundred_thousand(value) ==
    PyRound(value[1], value[2] * 100000) * 100000

calculate_immediate_purchase_offer(mp) ==
    IF NotPositive(mp)
    THEN None
    ELSE LET offer == <<Val(mp) * PURCHASE_MULTIPLIER[1], PURCHASE_MULTIPLIER[2]>>
         IN  PyInt(round_to_hundred_thousand(offer))

\* int(x * (1 - rate)) for an integer x >= 0 and rate = <<n, d>>: the floor of
\* x * (d - n) / d, computed by parts so that no product leaves 32 bits.
IntOfTimesOneMinus(x, rate) ==
    LET n == rate[2] - rate[1]
        d == rate[2]
    IN  (x \div d) * n + ((x % d) * n) \div d

\* calculate_consignment_liquidation charging the 4.5% commission without its
\* IVA in the high tier (0.045 = 9/200).
calculate_consignment_liquidation_NoIva(mp) ==
    IF NotPositive(mp)
    THEN None
    ELSE IF Val(mp) > CONSIGNMENT_THRESHOLD
         THEN PyInt(IntOfTimesOneMinus(Val(mp), <<9, 200>>))
         ELSE PyInt(Max(0, Val(mp) - LOW_TIER_FIXED_FEE))

\* calculate_consignment_liquidation without the max(0, ...) of the low tier.
calculate_consignment_liquidation_NoClamp(mp) ==
    IF NotPositive(mp)
    THEN None
    ELSE IF Val(mp) > CONSIGNMENT_THRESHOLD
         THEN PyInt(IntOfTimesOneMinus(Val(mp), HIGH_TIER_TOTAL_COMMISSION))
         ELSE PyInt(Val(mp) - LOW_TIER_FIXED_FEE)

\* calculate_consignment_liquidation charging the fixed fee in the high tier
\* too, on top of the commission.
calculate_consignment_liquidation_FeeInBothTiers(mp) ==
    IF NotPositive(mp)
    THEN None
    ELSE IF Val(mp) > CONSIGNMENT_THRESHOLD
         THEN PyInt(IntOfTimesOneMinus(Val(mp), HIGH_TIER_TOTAL_COMMISSION)
                    - LOW_TIER_FIXED_FEE)
         ELSE PyInt(Max(0, Val(mp) - LOW_TIER_FIXED_FEE))

calculate_consignment_liquidation(mp) ==
    IF NotPositive(mp)
    THEN None
    ELSE IF Val(mp) > CONSIGNMENT_THRESHOLD
         THEN PyInt(IntOfTimesOneMinus(Val(mp), HIGH_TIER_TOTAL_COMMISSION))
         ELSE PyInt(Max(0, Val(mp) - LOW_TIER_FIXED_FEE))

\* calculate_pricing whose guard is only `not market_price`: a negative price
\* is priced instead of being refused.
calculate_pricing_NoSignCheck(mp) ==
    IF ~Truthy(mp)
    THEN [ success |-> FALSE,
           error |-> "Invalid market price",
           market_price |-> None,
           immediate_offer |-> None,
           consignment_liquidation |-> None ]
    ELSE [ success |-> TRUE,
           market_price |-> PyInt(Val(mp)),
           immediate_offer |-> calculate_immediate_purchase_offer(mp),
           consignment_liquidation |-> calculate_consignment_liquidation(mp),
           consignment_type |->
               IF Val(mp) > CONSIGNMENT_THRESHOLD
               THEN "PERCENTAGE_BASED" ELSE "FIXED_FEE" ]

calculate_pricing(mp) ==
    IF NotPositive(mp)
    THEN [ success |-> FALSE,
           error |-> "Invalid market price",
           market_price |-> None,
           immediate_offer |-> None,
           consignment_liquidation |-> None ]
    ELSE LET consignment_type ==
                 IF Val(mp) > CONSIGNMENT_THRESHOLD
                 THEN "PERCENTAGE_BASED" ELSE "FIXED_FEE"
         IN  [ success |-> TRUE,
               market_price |-> PyInt(Val(mp)),
               immediate_offer |-> calculate_immediate_purchase_offer(mp),
               consignment_liquidation |-> calculate_consignment_liquidation(mp),
               consignment_type |-> consignment_type,
               details |->
                 [ purchase_multiplier |-> PURCHASE_MULTIPLIER,
                   consignment_threshold |-> CONSIGNMENT_THRESHOLD,
                   commission_rate |->
                       IF consignment_type = "PERCENTAGE_BASED"
                       THEN HIGH_TIER_TOTAL_COMMISSION ELSE None,
                   fixed_fee |->
                       IF consignment_type = "FIXED_FEE"
                       THEN PyInt(LOW_TIER_FIXED_FEE) ELSE None ] ]


\* calculate_pricing(market_price) for the positive float twice / 2, a whole
\* number or a half: the same arithmetic, the offer round(twice * 0.26 /
\* 100000) * 100000, the liquidation int(twice / 2 * 0.94645) in the high
\* tier and int(max(0, twice / 2 - 428400)) in the low one, market_price
\* int(twice / 2).
calculate_pricing_float(twice) ==
    LET consignment_type ==
            IF twice > 2 * CONSIGNMENT_THRESHOLD THEN "PERCENTAGE_BASED" ELSE "FIXED_FEE"
        offer == <<twice * PURCHASE_MULTIPLIER[1], 2 * PURCHASE_MULTIPLIER[2]>>
        half_rate == <<HIGH_TIER_TOTAL_COMMISSION[2] + HIGH_TIER_TOTAL_COMMISSION[1],
                       2 * HIGH_TIER_TOTAL_COMMISSION[2]>>
    IN  [ success |-> TRUE,
          market_price |-> PyInt(twice \div 2),
          immediate_offer |-> PyInt(round_to_hundred_thousand(offer)),
          consignment_liquidation |->
              IF consignment_type = "PERCENTAGE_BASED"
              THEN PyInt(IntOfTimesOneMinus(twice, half_rate))
              ELSE PyInt(Max(0, (twice - 2 * LOW_TIER_FIXED_FEE) \div 2)),
          consignment_type |-> consignment_type,
          details |->
            [ purchase_multiplier |-> PURCHASE_MULTIPLIER,
              consignment_threshold |-> CONSIGNMENT_THRESHOLD,
              commission_rate |->
                  IF consignment_type = "PERCENTAGE_BASED"
                  THEN HIGH_TIER_TOTAL_COMMISSION ELSE None,
              fixed_fee |->
                  IF consignment_type = "FIXED_FEE"
                  THEN PyInt(LOW_TIER_FIXED_FEE) ELSE None ] ]

----------------------------------------------------------------------------
(* execution/rate_limiter.py *)

\* The message of the exception raised at the limit, as its parts.
LimitMessage == <<"Daily API limit", "of N reached. Try again tomorrow.">>

\* The messages of the exceptions a failing store operation raises, as their
\* parts: the store chooses the text, which can hold the words the except
\* clause looks for.
StoreErrors ==
    { <<"connection refused">>,
      <<"duplicate key value">>,
      <<"upstream said: ", "Daily API limit", " exceeded for the project">> }

\* `"Daily API limit" in str(e)`
HasLimitText(e) == \E i \in 1..Len(e) : e[i] = "Daily API limit"

Returns(v) == [kind |-> "return", value |-> <<v>>]
Raises(e) == [kind |-> "raise", value |-> e]

\* The except clause of check_and_increment: the limit error is raised again,
\* anything else is logged and the request is let through.
ExceptHandler(e) == IF HasLimitText(e) THEN Raises(e) ELSE Returns("True")

\* Line 45: `current_count >= self.limit` read as `>`.
OverLimit_Greater(count, lim) == count > lim

\* Line 45: `current_count >= self.limit`
OverLimit(count, lim) == count >= lim

\* The select reading the rows of every day: no .eq("date", today).
RowsOfDay_AnyDay(usage, day) == UNION { usage[d] : d \in DOMAIN usage }

\* Line 32: select("*").eq("date", today): the counts of the rows of that day
RowsOfDay(usage, day) == usage[day]

InFlight(p) == pc[p] \in {"insert", "update"}

QuotaInit ==
    /\ limit \in 0..MaxLimit
    /\ supabase \in BOOLEAN
    /\ clock = 1
    /\ api_usage = [d \in Days |-> {}]
    /\ pc = [p \in Callers |-> "idle"]
    /\ today = [p \in Callers |-> 0]
    /\ current_count = [p \in Callers |-> 0]
    /\ returned = None
    /\ admitted = [d \in Days |-> 0]
    /\ raced = [d \in Days |-> 0]
    /\ counted = Days
    /\ racing = [p \in Callers |-> FALSE]
    /\ max_in_flight = 0
    /\ failures = 0

\* The call of p ends with outcome r.  The locals of the call are gone; what
\* is kept of it is the day it was made for, what its select had answered
\* ("none", "empty" or "row", and the count read), the store operation that
\* raised, if one did, and the outcome.  (History: an admission is counted
\* under the day of the call.)
Finish(p, resp, count, failed, r) ==
    /\ pc' = [pc EXCEPT ![p] = "idle"]
    /\ today' = [today EXCEPT ![p] = 0]
    /\ current_count' = [current_count EXCEPT ![p] = 0]
    /\ returned' = <<[ day |-> today[p],
                       response |-> resp,
                       current_count |-> count,
                       failed_at |-> failed,
                       outcome |-> r ]>>
    /\ admitted' = IF r.kind = "return"
                   THEN [admitted EXCEPT ![today[p]] = @ + 1] ELSE admitted
    /\ racing' = [racing EXCEPT ![p] = FALSE]

\* History of a caller entering flight (its select has answered and a write is
\* to follow): every caller now in flight has raced if there are two or more.
EnterFlight(p) ==
    LET flying == {q \in Callers : InFlight(q)} \cup {p}
        fresh == {q \in flying : ~racing[q]}
    IN  /\ max_in_flight' = Max(max_in_flight, Cardinality(flying))
        /\ IF Cardinality(flying) >= 2
           THEN /\ racing' = [q \in Callers |-> racing[q] \/ q \in flying]
                /\ raced' = [d \in Days |->
                               raced[d] + Cardinality({q \in fresh : today[q] = d})]
           ELSE UNCHANGED <<racing, raced>>

\* History: the counts of a day are dropped once the day is over (it is before
\* clk) and no call made for it is open: nothing more is admitted on it.
Over(d, clk) == d < clk /\ \A q \in Callers : today[q] # d

Forget(h, clk) == [d \in Days |-> IF Over(d, clk) THEN 0 ELSE h[d]]

\* Lines 25-26: without a client the call returns True at once.
CallDisabled(p) ==
    /\ pc[p] = "idle"
    /\ ~supabase
    /\ admitted[clock] < MaxAdmitted
    /\ returned' = <<[ day |-> clock, response |-> "none", current_count |-> 0,
                       failed_at |-> "none", outcome |-> Returns("True") ]>>
    /\ admitted' = [Forget(admitted, clock) EXCEPT ![clock] = @ + 1]
    /\ counted' = {d \in counted : ~Over(d, clock)}
    /\ UNCHANGED <<limit, supabase, clock, api_usage, pc, today, current_count,
                   raced, racing, max_in_flight, failures>>
    /\ UNCHANGED <<pricingVars, handlerVars, resolverVars, normalizerVars, valuationVars, scraperVars>>

\* Lines 25-28: with a client the call takes today's date.
Call(p) ==
    /\ pc[p] = "idle"
    /\ supabase
    /\ admitted[clock] + Cardinality({q \in Callers : pc[q] # "idle"}) < MaxAdmitted
    /\ today' = [today EXCEPT ![p] = clock]
    /\ pc' = [pc EXCEPT ![p] = "select"]
    /\ admitted' = Forget(admitted, clock)
    /\ raced' = Forget(raced, clock)
    /\ counted' = {d \in counted : ~Over(d, clock)}
    /\ UNCHANGED <<limit, supabase, clock, api_usage, current_count, returned,
                   racing, max_in_flight, failures>>
    /\ UNCHANGED <<pricingVars, handlerVars, resolverVars, normalizerVars, valuationVars, scraperVars>>

\* Lines 32-40, first branch: the select answers with no row of today; the
\* insert follows.
SelectEmpty(p) ==
    /\ pc[p] = "select"
    /\ RowsOfDay(api_usage, today[p]) = {}
    /\ pc' = [pc EXCEPT ![p] = "insert"]
    /\ EnterFlight(p)
    /\ UNCHANGED <<limit, supabase, clock, api_usage, today, current_count,
                   returned, admitted, counted, failures>>
    /\ UNCHANGED <<pricingVars, handlerVars, resolverVars, normalizerVars, valuationVars, scraperVars>>

\* SelectOverLimit counting the refused request too: the row read is raised by
\* one before the limit error is raised.
SelectOverLimit_Counted(p) ==
    /\ pc[p] = "select"
    /\ \E c \in RowsOfDay(api_usage, today[p]) :
        /\ OverLimit(c, limit)
        /\ api_usage' = [api_usage EXCEPT ![today[p]] = {c + 1}]
        /\ Finish(p, "row", c, "none", ExceptHandler(LimitMessage))
    /\ UNCHANGED <<limit, supabase, clock, raced, counted, max_in_flight, failures>>
    /\ UNCHANGED <<pricingVars, handlerVars, resolverVars, normalizerVars, valuationVars, scraperVars>>

\* Lines 32-47, a row at or over the limit: the limit error is raised, and the
\* except clause decides on it.  The select has no ORDER BY: data[0] is any
\* row of the day.
SelectOverLimit(p) ==
    /\ pc[p] = "select"
    /\ \E c \in RowsOfDay(api_usage, today[p]) :
        /\ OverLimit(c, limit)
        /\ Finish(p, "row", c, "none", ExceptHandler(LimitMessage))
    /\ UNCHANGED <<limit, supabase, clock, api_usage, raced, counted,
                   max_in_flight, failures>>
    /\ UNCHANGED <<pricingVars, handlerVars, resolverVars, normalizerVars, valuationVars, scraperVars>>

\* Lines 32-47, a row under the limit: the update follows.
SelectUnderLimit(p) ==
    /\ pc[p] = "select"
    /\ \E c \in RowsOfDay(api_usage, today[p]) :
        /\ ~OverLimit(c, limit)
        /\ current_count' = [current_count EXCEPT ![p] = c]
    /\ pc' = [pc EXCEPT ![p] = "update"]
    /\ EnterFlight(p)
    /\ UNCHANGED <<limit, supabase, clock, api_usage, today, returned, admitted,
                   counted, failures>>
    /\ UNCHANGED <<pricingVars, handlerVars, resolverVars, normalizerVars, valuationVars, scraperVars>>

\* Lines 38-40: a row of today is created with count 1 and the call returns True.
Insert(p) ==
    /\ pc[p] = "insert"
    /\ api_usage' = [api_usage EXCEPT ![today[p]] = @ \cup {1}]
    /\ Finish(p, "empty", 0, "none", Returns("True"))
    /\ UNCHANGED <<limit, supabase, clock, raced, counted, max_in_flight,
                   failures>>
    /\ UNCHANGED <<pricingVars, handlerVars, resolverVars, normalizerVars, valuationVars, scraperVars>>

\* Lines 51-55: every row of today is set to current_count + 1 and the call
\* returns True.
Update(p) ==
    /\ pc[p] = "update"
    /\ api_usage' = [api_usage EXCEPT ![today[p]] =
                        IF @ = {} THEN {} ELSE {current_count[p] + 1}]
    /\ Finish(p, "row", current_count[p], "none", Returns("True"))
    /\ UNCHANGED <<limit, supabase, clock, raced, counted, max_in_flight,
                   failures>>
    /\ UNCHANGED <<pricingVars, handlerVars, resolverVars, normalizerVars, valuationVars, scraperVars>>

\* What the select of a call that stands at `at` had answered.
ResponseAt(at) ==
    CASE at = "insert" -> "empty"
      [] at = "update" -> "row"
      [] OTHER -> "none"

\* Lines 57-62: a store operation (the select, the insert or the update) raises;
\* the except clause decides on the message.
StoreFails(p) ==
    /\ pc[p] \in {"select", "insert", "update"}
    /\ \E e \in StoreErrors :
           Finish(p, ResponseAt(pc[p]), current_count[p], pc[p], ExceptHandler(e))
    /\ failures < MaxFailures
    /\ failures' = failures + 1
    /\ UNCHANGED <<limit, supabase, clock, api_usage, raced, counted,
                   max_in_flight>>
    /\ UNCHANGED <<pricingVars, handlerVars, resolverVars, normalizerVars, valuationVars, scraperVars>>

\* datetime.date.today() moves on to the next day.
Midnight ==
    /\ clock < MaxDay
    /\ clock' = clock + 1
    /\ admitted' = Forget(admitted, clock + 1)
    /\ raced' = Forget(raced, clock + 1)
    /\ counted' = {d \in counted : ~Over(d, clock + 1)}
    /\ UNCHANGED <<limit, supabase, api_usage, pc, today, current_count, returned,
                   racing, max_in_flight, failures>>
    /\ UNCHANGED <<pricingVars, handlerVars, resolverVars, normalizerVars, valuationVars, scraperVars>>

QuotaNext ==
    \/ \E p \in Callers : CallDisabled(p)
    \/ \E p \in Callers : Call(p)
    \/ \E p \in Callers : SelectEmpty(p)
    \/ \E p \in Callers : SelectOverLimit(p)
    \/ \E p \in Callers : SelectUnderLimit(p)
    \/ \E p \in Callers : Insert(p)
    \/ \E p \in Callers : Update(p)
    \/ \E p \in Callers : StoreFails(p)
    \/ Midnight

----------------------------------------------------------------------------
(* app.py: get_market_price, the handler of GET /api/market-price *)

\* A query parameter: absent (None), empty, or a text.
MakeInputs == {None, <<"">>, <<"TOYOTA">>}
ModelInputs == {None, <<"">>, <<"COROLLA">>}
YearInputs == {None, <<"">>, <<"2018">>, <<"dos mil">>}

\* avgPrice in the data of a valuation as an int: prices k * 1250000, and
\* around the tiers.
MaxAvgK == 8
AvgPrices == { k * 1250000 : k \in -1..MaxAvgK } \cup {7999999, 8000001, 9066666}

\* avgPrice as a finite float, by twice its value: -1.5, 0.0 (and -0.0), 0.5,
\* 428400.5, 1250000.0, 7999999.5, 8000000.0, 8000000.5, 9000000.5, 9066666.5
AvgFloats == {-3, 0, 1, 856801, 2500000, 15999999, 16000000, 16000001, 18000001, 18133333}

\* The digits of an int a float does not hold: float(10 ** 309) raises
\* OverflowError.
HugeDigits == 310

\* The numbers avgPrice can be in the data get_vehicle_valuation returns: the
\* print of line 144 of execution/gemini_valuation.py formats it with ',',
\* which raises for None, a string, a list and a dict, so what is left of
\* the values of json.loads is an int <<"int", v>>, the int 10 ** (n - 1) of n
\* digits <<"long", n>>, true or false <<"bool", b>>, a finite float
\* <<"float", twice>>, NaN <<"nan">>, and Infinity and -Infinity
\* <<"inf", negative>>.
AvgPriceValues ==
    { <<"int", v>> : v \in AvgPrices }
    \cup { <<"long", HugeDigits>> }
    \cup { <<"bool", b>> : b \in BOOLEAN }
    \cup { <<"float", twice>> : twice \in AvgFloats }
    \cup { <<"nan">>, <<"inf", FALSE>>, <<"inf", TRUE>> }

\* What get_vehicle_valuation (execution/gemini_valuation.py) hands back: a
\* dict with data and sources, the data without avgPrice or with a number for
\* it, or ValueError.
ValuationOutcomes ==
    { [kind |-> "raise", data |-> [error |-> <<"No se pudo obtener la cotizacion">>]] }
    \cup { [kind |-> "return", data |-> [currency |-> <<"CLP">>]] }
    \cup { [kind |-> "return", data |-> [currency |-> <<"CLP">>, avgPrice |-> x]]
           : x \in AvgPriceValues }

\* Python truthiness of a query parameter: None and "" are falsy.
TruthyText(x) == ~IsNone(x) /\ Val(x) # ""

\* data.get(key, default) for key = "avgPrice"
GetAvgPrice(data, default) ==
    IF "avgPrice" \in DOMAIN data THEN data.avgPrice ELSE <<"int", default>>

\* Line 105: `not avg_price or avg_price <= 0` for a number: 0, 0.0 and False
\* are falsy, NaN is truthy and not <= 0
NoPrice(x) ==
    CASE x[1] = "int" -> x[2] <= 0
      [] x[1] = "long" -> FALSE
      [] x[1] = "bool" -> ~x[2]
      [] x[1] = "float" -> x[2] <= 0
      [] x[1] = "inf" -> x[2]
      [] x[1] = "nan" -> FALSE

\* Line 113: the exception calculate_pricing raises for a number that passed
\* line 105, None when it returns: market_price * 0.52 of an int no float
\* holds, and round() of Infinity and of NaN in round_to_hundred_thousand
PricingError(x) ==
    CASE x[1] = "long" -> <<"int too large to convert to float">>
      [] x[1] = "inf" -> <<"cannot convert float infinity to integer">>
      [] x[1] = "nan" -> <<"cannot convert float NaN to integer">>
      [] OTHER -> None

\* Line 113: what calculate_pricing returns for a number that passed line
\* 105; True counts as 1 in its arithmetic
PricingOf(x) ==
    CASE x[1] = "int" -> calculate_pricing(PyInt(x[2]))
      [] x[1] = "bool" -> calculate_pricing(PyInt(1))
      [] x[1] = "float" -> calculate_pricing_float(x[2])

HandlerIdle ==
    /\ args = [make |-> None, model |-> None, year |-> None]
    /\ handler_pc = "done"
    /\ valuation = None
    /\ http = None
    /\ trace = <<>>

HandlerInit ==
    /\ args \in [make : MakeInputs, model : ModelInputs, year : YearInputs]
    /\ handler_pc = "start"
    /\ valuation = None
    /\ http = None
    /\ trace = <<>>

\* Lines 79-89: without make, model or year the handler answers 400.
MissingParameters ==
    /\ handler_pc = "start"
    /\ ~(TruthyText(args.make) /\ TruthyText(args.model) /\ TruthyText(args.year))
    /\ http' = <<[status |-> 400, success |-> FALSE,
                  error |-> <<"Missing required parameters: make, model, year">>]>>
    /\ handler_pc' = "done"
    /\ UNCHANGED <<args, valuation, trace>>
    /\ UNCHANGED <<pricingVars, quotaVars, resolverVars, normalizerVars, valuationVars, scraperVars>>

\* Lines 91-98: with all three the handler calls get_vehicle_valuation.
GetVehicleValuation ==
    /\ handler_pc = "start"
    /\ TruthyText(args.make) /\ TruthyText(args.model) /\ TruthyText(args.year)
    /\ trace' = Append(trace, "get_vehicle_valuation")
    /\ \E v \in ValuationOutcomes : valuation' = <<v>>
    /\ handler_pc' = "valued"
    /\ UNCHANGED <<args, http>>
    /\ UNCHANGED <<pricingVars, quotaVars, resolverVars, normalizerVars, valuationVars, scraperVars>>

\* Lines 91-98: get_vehicle_valuation neither returns nor raises, its call of
\* generate_content (execution/gemini_valuation.py, lines 84-91) being made
\* without a timeout; the handler has no timeout of its own.
ValuationHangs ==
    /\ handler_pc = "start"
    /\ TruthyText(args.make) /\ TruthyText(args.model) /\ TruthyText(args.year)
    /\ trace' = Append(trace, "get_vehicle_valuation")
    /\ handler_pc' = "waiting"
    /\ UNCHANGED <<args, valuation, http>>
    /\ UNCHANGED <<pricingVars, quotaVars, resolverVars, normalizerVars, valuationVars, scraperVars>>

\* Lines 143-149: an exception of the valuation is answered with 500.
ValuationRaised ==
    /\ handler_pc = "valued"
    /\ Val(valuation).kind = "raise"
    /\ http' = <<[status |-> 500, success |-> FALSE,
                  error |-> Val(valuation).data.error]>>
    /\ handler_pc' = "done"
    /\ UNCHANGED <<args, valuation, trace>>
    /\ UNCHANGED <<pricingVars, quotaVars, resolverVars, normalizerVars, valuationVars, scraperVars>>

\* Lines 100-109: a missing, zero, negative or false avgPrice is answered
\* with 500.
NoMarketPrice ==
    /\ handler_pc = "valued"
    /\ Val(valuation).kind = "return"
    /\ NoPrice(GetAvgPrice(Val(valuation).data, 0))
    /\ http' = <<[status |-> 500, success |-> FALSE,
                  error |-> <<"Gemini could not determine market price">>]>>
    /\ handler_pc' = "done"
    /\ UNCHANGED <<args, valuation, trace>>
    /\ UNCHANGED <<pricingVars, quotaVars, resolverVars, normalizerVars, valuationVars, scraperVars>>

\* Lines 111-113, 143-149: calculate_pricing raises, and the except clause
\* of the handler answers 500 with the message of the exception.
PricingRaised ==
    /\ handler_pc = "valued"
    /\ Val(valuation).kind = "return"
    /\ LET avg_price == GetAvgPrice(Val(valuation).data, 0)
       IN  /\ ~NoPrice(avg_price)
           /\ PricingError(avg_price) # None
           /\ http' = <<[status |-> 500, success |-> FALSE,
                         error |-> PricingError(avg_price)]>>
    /\ trace' = Append(trace, "calculate_pricing")
    /\ handler_pc' = "done"
    /\ UNCHANGED <<args, valuation>>
    /\ UNCHANGED <<pricingVars, quotaVars, resolverVars, normalizerVars, valuationVars, scraperVars>>

\* Lines 111-142: the average price goes through calculate_pricing and the
\* response carries the market data and the pricing.
RespondWithPricing ==
    /\ handler_pc = "valued"
    /\ Val(valuation).kind = "return"
    /\ LET avg_price == GetAvgPrice(Val(valuation).data, 0)
           Answer(priced) ==
               /\ pricing' = <<priced>>
               /\ http' = <<[status |-> 200, success |-> TRUE,
                             market_data |-> [price |-> avg_price, estimated |-> FALSE],
                             pricing |->
                               [ market_price |-> priced.market_price,
                                 immediate_offer |-> priced.immediate_offer,
                                 consignment_liquidation |-> priced.consignment_liquidation,
                                 consignment_type |-> priced.consignment_type ]]>>
       IN  /\ ~NoPrice(avg_price)
           /\ PricingError(avg_price) = None
           /\ market_price' = avg_price
           /\ Answer(PricingOf(avg_price))
    /\ trace' = Append(trace, "calculate_pricing")
    /\ handler_pc' = "done"
    /\ UNCHANGED <<args, valuation>>
    /\ UNCHANGED <<quotaVars, resolverVars, normalizerVars, valuationVars, scraperVars>>

HandlerNext ==
    \/ MissingParameters
    \/ GetVehicleValuation
    \/ ValuationHangs
    \/ ValuationRaised
    \/ NoMarketPrice
    \/ PricingRaised
    \/ RespondWithPricing

----------------------------------------------------------------------------
(* Python str methods on a text given as the sequence of its characters *)

LowerLetters == <<"a", "b", "c", "d", "e", "f", "g", "h", "i", "j", "k", "l", "m",
                  "n", "o", "p", "q", "r", "s", "t", "u", "v", "w", "x", "y", "z">>
UpperLetters == <<"A", "B", "C", "D", "E", "F", "G", "H", "I", "J", "K", "L", "M",
                  "N", "O", "P", "Q", "R", "S", "T", "U", "V", "W", "X", "Y", "Z">>
Digits == {"0", "1", "2", "3", "4", "5", "6", "7", "8", "9"}

\* The texts of the model are over the characters U+0000..U+00FF.  The
\* letters of U+00E0..U+00FE and, at the same index, their capitals of
\* U+00C0..U+00DE
LatinLower == <<"à", "á", "â", "ã", "ä", "å", "æ", "ç", "è", "é", "ê", "ë", "ì", "í",
              "î", "ï", "ð", "ñ", "ò", "ó", "ô", "õ", "ö", "ø", "ù", "ú", "û", "ü",
              "ý", "þ">>
LatinUpper == <<"À", "Á", "Â", "Ã", "Ä", "Å", "Æ", "Ç", "È", "É", "Ê", "Ë", "Ì", "Í",
              "Î", "Ï", "Ð", "Ñ", "Ò", "Ó", "Ô", "Õ", "Ö", "Ø", "Ù", "Ú", "Û", "Ü",
              "Ý", "Þ">>

\* the characters U+0178, U+039C and U+03BC: the capital of U+00FF, the
\* capital of U+00B5 and the small letter of that capital
CapitalYDiaeresis == "u0178"
GreekCapitalMu == "u039c"
GreekSmallMu == "u03bc"

\* the characters U+000B, U+001C..U+001F, U+0085 and U+00A0
VerticalTab == "vt"
FileSeparator == "fs"
GroupSeparator == "gs"
RecordSeparator == "rs"
UnitSeparator == "us"
NextLine == "nel"
Nbsp == "nbsp"

\* the characters str.isspace() holds of: what str.strip() strips, str.split()
\* splits on and \s of a regular expression on a str matches
Whitespace ==
    {" ", "\t", "\n", VerticalTab, "\f", "\r", FileSeparator, GroupSeparator,
     RecordSeparator, UnitSeparator, NextLine, Nbsp}

\* the whitespace int() strips from a text
IntWhitespace == {" ", "\t", "\n", VerticalTab, "\f", "\r", NextLine, Nbsp}

\* c.upper(), a text: one character but for U+00DF
UpperChar(c) ==
    IF \E i \in 1..26 : LowerLetters[i] = c
    THEN <<UpperLetters[CHOOSE i \in 1..26 : LowerLetters[i] = c]>>
    ELSE IF \E i \in 1..Len(LatinLower) : LatinLower[i] = c
    THEN <<LatinUpper[CHOOSE i \in 1..Len(LatinLower) : LatinLower[i] = c]>>
    ELSE IF c = "ß" THEN <<"S", "S">>
    ELSE IF c = "ÿ" THEN <<CapitalYDiaeresis>>
    ELSE IF c = "µ" THEN <<GreekCapitalMu>>
    ELSE <<c>>

\* c.lower(), a character
LowerChar(c) ==
    IF \E i \in 1..26 : UpperLetters[i] = c
    THEN LowerLetters[CHOOSE i \in 1..26 : UpperLetters[i] = c]
    ELSE IF \E i \in 1..Len(LatinUpper) : LatinUpper[i] = c
    THEN LatinLower[CHOOSE i \in 1..Len(LatinUpper) : LatinUpper[i] = c]
    ELSE IF c = CapitalYDiaeresis THEN "ÿ"
    ELSE IF c = GreekCapitalMu THEN GreekSmallMu
    ELSE c

\* str.upper() and str.lower()
RECURSIVE PyUpper(_)
PyUpper(s) == IF s = <<>> THEN <<>> ELSE UpperChar(Head(s)) \o PyUpper(Tail(s))
PyLower(s) == [i \in 1..Len(s) |-> LowerChar(s[i])]

Min(a, b) == IF a <= b THEN a ELSE b
SetMin(S) == CHOOSE x \in S : \A y \in S : x <= y
SetMax(S) == CHOOSE x \in S : \A y \in S : x >= y

\* s without its leading and its trailing characters of the set cs
StripOf(s, cs) ==
    LET first == CHOOSE i \in 1..(Len(s) + 1) :
                     /\ i = Len(s) + 1 \/ s[i] \notin cs
                     /\ \A j \in 1..(i - 1) : s[j] \in cs
        trailing == CHOOSE k \in 0..Len(s) :
                        /\ k = Len(s) \/ s[Len(s) - k] \notin cs
                        /\ \A j \in 0..(k - 1) : s[Len(s) - j] \in cs
    IN  SubSeq(s, first, Len(s) - trailing)

\* str.strip(): without the leading and the trailing whitespace
PyStrip(s) == StripOf(s, Whitespace)

----------------------------------------------------------------------------
(* app.py: get_vehicle, the handler of GET /api/vehicle/<plate>, and          *)
(* execution/vehicle_lookup.py: get_car_info_by_plate                        *)

\* The plates written to the index, as _load_excel_files stores them.
IndexedPlates == { <<"L", "X", "B", "W", "6", "8">>, <<"V", "L", "T", "J", "5", "0">> }

\* The <plate> of a request: as indexed, in lower case, padded with spaces,
\* followed by a carriage return and a no-break space, unknown.
PlateInputs ==
    { <<"L", "X", "B", "W", "6", "8">>, <<"l", "x", "b", "w", "6", "8">>,
      <<" ", "L", "x", "b", "w", "6", "8", " ">>, <<"V", "L", "T", "J", "5", "0">>,
      <<"l", "x", "b", "w", "6", "8", "\r", Nbsp>>, <<"Z", "Z", "Z", "Z", "9", "9">> }

\* make, model and year of a row of the index or of a provider's page
Vehicles ==
    { [make |-> <<"MAZDA">>, model |-> <<"CX-5">>, year |-> <<"2018">>],
      [make |-> <<"TOYOTA">>, model |-> <<"COROLLA">>, year |-> None] }

\* The plate providers of the repository: each module defines a
\* get_car_info_by_plate; app.py imports the one of vehicle_lookup alone.
PlateProviders == <<"vehicle_lookup", "scrape_patentechile", "scrape_volanteomaleta">>
WebProviders == {"scrape_patentechile", "scrape_volanteomaleta"}

\* Every index: a function from some of the indexed plates to their vehicles.
VehicleDbs ==
    UNION { [ps -> Vehicles] : ps \in SUBSET IndexedPlates }

\* the same, a plate that is not found reported without an error message
get_car_info_by_plate_NoError(db, plate) ==
    LET key == PyStrip(PyUpper(plate))
    IN  IF key \in DOMAIN db
        THEN [success |-> TRUE, plate |-> key, make |-> db[key].make,
              model |-> db[key].model, year |-> db[key].year,
              owner |-> None, rut |-> None, error |-> None]
        ELSE [success |-> FALSE, plate |-> key, make |-> None, model |-> None,
              year |-> None, owner |-> None, rut |-> None, error |-> None]

\* vehicle_lookup.get_car_info_by_plate(plate) over the index db
get_car_info_by_plate(db, plate) ==
    LET key == PyStrip(PyUpper(plate))
    IN  IF key \in DOMAIN db
        THEN [success |-> TRUE, plate |-> key, make |-> db[key].make,
              model |-> db[key].model, year |-> db[key].year,
              owner |-> None, rut |-> None, error |-> None]
        ELSE [success |-> FALSE, plate |-> key, make |-> None, model |-> None,
              year |-> None, owner |-> None, rut |-> None,
              error |-> <<"Patente {plate} no encontrada en la base de datos", key>>]

\* str(e) of what _load_excel_files raises within the lookup
LookupErrors ==
    { <<"File is not a zip file">>, <<"invalid literal for int() with base 10">> }

PlateIdle ==
    /\ plate_arg = <<>>
    /\ vehicle_db = <<>>
    /\ sites = [w \in WebProviders |-> None]
    /\ lookups = <<>>
    /\ vehicle_http = None

PlateInit ==
    /\ plate_arg \in PlateInputs
    /\ vehicle_db \in VehicleDbs
    /\ sites \in [WebProviders -> {None} \cup { <<v>> : v \in Vehicles }]
    /\ lookups = <<>>
    /\ vehicle_http = None

\* Lines 61-67: the route matches a plate of one character or more, and the
\* handler answers with what the index lookup returned.
GetVehicle ==
    /\ plate_arg # <<>>
    /\ vehicle_http = None
    /\ lookups' = Append(lookups, "vehicle_lookup")
    /\ vehicle_http' = <<[status |-> 200, body |-> get_car_info_by_plate(vehicle_db, plate_arg)]>>
    /\ UNCHANGED <<plate_arg, vehicle_db, sites>>
    /\ UNCHANGED <<pricingVars, quotaVars, handlerVars, marketVars, parserVars, normalizerVars, valuationVars, scraperVars>>

\* Lines 68-72: the lookup raises (the SGPRT workbooks cannot be read or hold
\* a year that is no number) and the handler answers 500 with the message.
GetVehicleRaised ==
    /\ plate_arg # <<>>
    /\ vehicle_http = None
    /\ lookups' = Append(lookups, "vehicle_lookup")
    /\ \E e \in LookupErrors :
          vehicle_http' = <<[status |-> 500, body |-> [success |-> FALSE, error |-> e]]>>
    /\ UNCHANGED <<plate_arg, vehicle_db, sites>>
    /\ UNCHANGED <<pricingVars, quotaVars, handlerVars, marketVars, parserVars, normalizerVars, valuationVars, scraperVars>>

PlateNext ==
    \/ GetVehicle
    \/ GetVehicleRaised

----------------------------------------------------------------------------
(* execution/scrape_market_prices.py: normalize_model_for_url *)

\* the characters of U+0080..U+00FF that str.isalnum() holds of and that have
\* no case: ordinal indicators, superscripts and fractions
UncasedWordChars == {"ª", "º", "²", "³", "¹", "¼", "½", "¾"}

\* \w of a regular expression on a str: a character that str.isalnum() holds
\* of, or the underscore
IsWordChar(c) ==
    \/ c \in Digits
    \/ c = "_"
    \/ \E i \in 1..26 : c = LowerLetters[i] \/ c = UpperLetters[i]
    \/ \E i \in 1..Len(LatinLower) : c = LatinLower[i] \/ c = LatinUpper[i]
    \/ c \in {"ß", "ÿ", "µ", CapitalYDiaeresis, GreekCapitalMu, GreekSmallMu}
    \/ c \in UncasedWordChars

\* the length of the longest run of characters of the set cs that starts at i
RunLen(s, i, cs) ==
    IF i > Len(s) \/ i < 1 THEN 0
    ELSE CHOOSE n \in 0..(Len(s) - i + 1) :
             /\ n = Len(s) - i + 1 \/ s[i + n] \notin cs
             /\ \A k \in 0..(n - 1) : s[i + k] \in cs

\* \b of a regular expression between the characters i - 1 and i of s
IsBoundary(s, i) ==
    LET before == i > 1 /\ i - 1 <= Len(s) /\ IsWordChar(s[i - 1])
        after == i >= 1 /\ i <= Len(s) /\ IsWordChar(s[i])
    IN  before # after

\* the end (exclusive) of a match of \s+\d+\.\d+ that starts at i, 0 without one
DisplacementEnd(s, i) ==
    LET ws == RunLen(s, i, Whitespace)
        whole == RunLen(s, i + ws, Digits)
        dot == i + ws + whole
        frac == RunLen(s, dot + 1, Digits)
    IN  IF ws >= 1 /\ whole >= 1 /\ dot <= Len(s) /\ s[dot] = "." /\ frac >= 1
        THEN dot + 1 + frac ELSE 0

\* re.sub(r'\s+\d+\.\d+$', '', s)
SubTrailingDisplacement(s) ==
    LET starts == { i \in 1..Len(s) : DisplacementEnd(s, i) = Len(s) + 1 }
    IN  IF starts = {} THEN s ELSE SubSeq(s, 1, SetMin(starts) - 1)

\* the end (exclusive) of a match of \s+\d+\.\d+\s that starts at i, 0 without
\* one: whitespace must follow the whole run of digits of the fraction
EmbeddedEnd(s, i) ==
    LET e == DisplacementEnd(s, i)
    IN  IF e = 0 THEN 0
        ELSE IF e <= Len(s) /\ s[e] \in Whitespace THEN e + 1 ELSE 0

\* re.sub(r'\s+\d+\.\d+\s', ' ', s), from position i on
RECURSIVE SubEmbeddedFrom(_, _)
SubEmbeddedFrom(s, i) ==
    IF i > Len(s) THEN <<>>
    ELSE IF EmbeddedEnd(s, i) # 0
         THEN <<" ">> \o SubEmbeddedFrom(s, EmbeddedEnd(s, i))
         ELSE <<s[i]>> \o SubEmbeddedFrom(s, i + 1)

SubEmbeddedDisplacement(s) == SubEmbeddedFrom(s, 1)

\* the trim levels removed, in the order of the loop
TrimLevels ==
    << <<"l", "s">>, <<"l", "t">>, <<"l", "t", "z">>, <<"s", "e">>, <<"e", "x">>,
       <<"d", "x">>, <<"g", "l">>, <<"g", "l", "s">>, <<"i", "i">>,
       <<"i", "i", "i">>, <<"i", "v">>, <<"c", "a", "r", "g", "o">>,
       <<"b", "o", "x">>, <<"b", "a", "s", "e">>, <<"f", "u", "l", "l">>,
       <<"l", "i", "m", "i", "t", "e", "d">>, <<"s", "p", "o", "r", "t">>,
       <<"p", "r", "e", "m", "i", "u", "m">> >>

\* \b{trim}\b matches at i
WordAt(s, i, trim) ==
    /\ i + Len(trim) - 1 <= Len(s)
    /\ SubSeq(s, i, i + Len(trim) - 1) = trim
    /\ IsBoundary(s, i)
    /\ IsBoundary(s, i + Len(trim))

\* re.sub(rf'\b{trim}\b', '', s), from position i on
RECURSIVE SubWordFrom(_, _, _)
SubWordFrom(s, i, trim) ==
    IF i > Len(s) THEN <<>>
    ELSE IF WordAt(s, i, trim) THEN SubWordFrom(s, i + Len(trim), trim)
         ELSE <<s[i]>> \o SubWordFrom(s, i + 1, trim)

\* the loop over the trim levels, from the k-th on
RECURSIVE RemoveTrims(_, _)
RemoveTrims(s, k) ==
    IF k > Len(TrimLevels) THEN s
    ELSE RemoveTrims(SubWordFrom(s, 1, TrimLevels[k]), k + 1)

\* str.split(): the words between runs of whitespace, from position i on
RECURSIVE SplitFrom(_, _)
SplitFrom(s, i) ==
    IF i > Len(s) THEN <<>>
    ELSE IF s[i] \in Whitespace THEN SplitFrom(s, i + 1)
         ELSE LET n == RunLen(s, i, { c \in { s[k] : k \in 1..Len(s) } : c \notin Whitespace })
              IN  <<SubSeq(s, i, i + n - 1)>> \o SplitFrom(s, i + n)

PySplit(s) == SplitFrom(s, 1)

\* str.replace(old, new) for single characters
PyReplace(s, old, new) == [i \in 1..Len(s) |-> IF s[i] = old THEN new ELSE s[i]]

\* re.sub(r'_+', '_', s), from position i on
RECURSIVE CollapseFrom(_, _)
CollapseFrom(s, i) ==
    IF i > Len(s) THEN <<>>
    ELSE IF s[i] = "_" THEN <<"_">> \o CollapseFrom(s, i + RunLen(s, i, {"_"}))
         ELSE <<s[i]>> \o CollapseFrom(s, i + 1)

\* str.strip('_')
StripUnderscores(s) ==
    LET kept == { i \in 1..Len(s) : s[i] # "_" }
    IN  IF kept = {} THEN <<>> ELSE SubSeq(s, SetMin(kept), SetMax(kept))

normalize_model_for_url(model) ==
    LET lowered == PyStrip(PyLower(model))
        no_engine == SubEmbeddedDisplacement(SubTrailingDisplacement(lowered))
        no_trim == PyStrip(RemoveTrims(no_engine, 1))
        words == PySplit(no_trim)
        core == IF Len(words) > 2 THEN words[1] \o <<" ">> \o words[2] ELSE no_trim
        joined == PyReplace(PyReplace(core, "-", "_"), " ", "_")
    IN  StripUnderscores(CollapseFrom(joined, 1))

----------------------------------------------------------------------------
(* execution/scrape_market_prices.py: the prices of a page text *)

DigitChars == <<"0", "1", "2", "3", "4", "5", "6", "7", "8", "9">>
DigitValue(c) == (CHOOSE d \in 1..10 : DigitChars[d] = c) - 1

\* A Python int has no bound and the integers computed with here have 32
\* bits.  An int of at most nine digits is <<the integer>>; an int of ten
\* digits or more is <<it is negative, the text of its digits>>.
BigInt(negative, ds) == <<negative, ds>>
IsBig(n) == Len(n) = 2

\* the number a text of at most nine digits stands for, from its i-th digit on
RECURSIVE IntOfDigitsFrom(_, _, _)
IntOfDigitsFrom(ds, i, acc) ==
    IF i > Len(ds) THEN acc
    ELSE IntOfDigitsFrom(ds, i + 1, acc * 10 + DigitValue(ds[i]))

\* the digits of the integer n >= 0
RECURSIVE DigitsOf(_)
DigitsOf(n) ==
    IF n < 10 THEN <<DigitChars[n + 1]>>
    ELSE Append(DigitsOf(n \div 10), DigitChars[(n % 10) + 1])

\* a text of digits without its leading zeros
StripZeros(ds) ==
    LET significant == { i \in 1..Len(ds) : ds[i] # "0" }
    IN  IF significant = {} THEN <<"0">> ELSE SubSeq(ds, SetMin(significant), Len(ds))

\* the int of a sign and a text of digits
PyLong(negative, ds) ==
    LET significant == StripZeros(ds)
        magnitude == IntOfDigitsFrom(significant, 1, 0)
    IN  IF Len(significant) <= 9
        THEN PyInt(IF negative THEN 0 - magnitude ELSE magnitude)
        ELSE BigInt(negative, significant)

\* the last place before the units whose digit is not c, 0 without one
LastNot(ds, c) ==
    CHOOSE j \in 0..(Len(ds) - 1) :
        /\ j = 0 \/ ds[j] # c
        /\ \A i \in (j + 1)..(Len(ds) - 1) : ds[i] = c

\* the digits of a number of ten digits or more and of k added to it,
\* 0 <= k <= 9: a carry runs over the nines before the units
DecAdd(ds, k) ==
    LET n == Len(ds)
        d == DigitValue(ds[n]) + k
        j == LastNot(ds, "9")
    IN  IF d < 10 THEN SubSeq(ds, 1, n - 1) \o <<DigitChars[d + 1]>>
        ELSE (IF j = 0 THEN <<"1">>
              ELSE SubSeq(ds, 1, j - 1) \o <<DigitChars[DigitValue(ds[j]) + 2]>>)
             \o [i \in 1..(n - 1 - j) |-> "0"] \o <<DigitChars[d - 9]>>

\* the digits of a number of ten digits or more less k, 0 <= k <= 9: a borrow
\* runs over the zeros before the units
DecSub(ds, k) ==
    LET n == Len(ds)
        d == DigitValue(ds[n]) - k
        j == LastNot(ds, "0")
    IN  IF d >= 0 THEN SubSeq(ds, 1, n - 1) \o <<DigitChars[d + 1]>>
        ELSE SubSeq(ds, 1, j - 1) \o <<DigitChars[DigitValue(ds[j])]>>
             \o [i \in 1..(n - 1 - j) |-> "9"] \o <<DigitChars[d + 11]>>

\* n + k for an int n and -9 <= k <= 9
PyAdd(n, k) ==
    LET size == IF k < 0 THEN 0 - k ELSE k
    IN  IF ~IsBig(n)
        THEN LET m == Val(n) + k
             IN  PyLong(m < 0, DigitsOf(IF m < 0 THEN 0 - m ELSE m))
        ELSE IF n[1] = (k < 0) THEN PyLong(n[1], DecAdd(n[2], size))
        ELSE PyLong(n[1], DecSub(n[2], size))

\* the number of the digits ds is at most that of the digits es, neither with
\* leading zeros
DigitsLeq(ds, es) ==
    LET differ == { i \in 1..Len(ds) : ds[i] # es[i] }
    IN  \/ Len(ds) < Len(es)
        \/ /\ Len(ds) = Len(es)
           /\ differ # {} =>
                  DigitValue(ds[SetMin(differ)]) < DigitValue(es[SetMin(differ)])

\* m <= n for two ints
PyLeq(m, n) ==
    IF ~IsBig(m) /\ ~IsBig(n) THEN Val(m) <= Val(n)
    ELSE IF ~IsBig(n) THEN m[1]
    ELSE IF ~IsBig(m) THEN ~n[1]
    ELSE IF m[1] # n[1] THEN m[1]
    ELSE IF m[1] THEN DigitsLeq(n[2], m[2])
    ELSE DigitsLeq(m[2], n[2])

\* sys.get_int_max_str_digits(): int() raises ValueError on a text of more
\* digits
IntMaxStrDigits == 4300

\* int(ds) of a text of digits: the int, None when int() raises ValueError
PyIntOfDigits(ds) ==
    IF ds = <<>> \/ Len(ds) > IntMaxStrDigits THEN None ELSE PyLong(FALSE, ds)

\* a group \.[\d]{3} starts at p
IsGroupAt(s, p) ==
    /\ p >= 1 /\ p + 3 <= Len(s)
    /\ s[p] = "."
    /\ \A k \in 1..3 : s[p + k] \in Digits

\* the number of consecutive groups \.[\d]{3} that start at p
GroupsAt(s, p) ==
    CHOOSE n \in 0..Len(s) :
        /\ ~IsGroupAt(s, p + 4 * n)
        /\ \A k \in 0..(n - 1) : IsGroupAt(s, p + 4 * k)

\* a match of \$\s*([\d]{1,3}(?:\.[\d]{3})+) that starts at i: where its group
\* starts and where it ends (exclusive), <<0, 0>> without a match.  The one
\* to three leading digits must reach up to the first dot.
PriceMatchAt(s, i) ==
    LET from == i + 1 + RunLen(s, i + 1, Whitespace)
        lead == RunLen(s, from, Digits)
        groups == GroupsAt(s, from + lead)
    IN  IF s[i] = "$" /\ lead >= 1 /\ lead <= 3 /\ groups >= 1
        THEN <<from, from + lead + 4 * groups>> ELSE <<0, 0>>

\* re.findall(r'\$\s*([\d]{1,3}(?:\.[\d]{3})+)', page_text), from position i on
RECURSIVE FindAllPricesFrom(_, _)
FindAllPricesFrom(s, i) ==
    LET at == i + RunLen(s, i, { c \in { s[k] : k \in 1..Len(s) } : c # "$" })
        m == PriceMatchAt(s, at)
    IN  IF at > Len(s) THEN <<>>
        ELSE IF m[1] # 0
             THEN <<SubSeq(s, m[1], m[2] - 1)>> \o FindAllPricesFrom(s, m[2])
             ELSE FindAllPricesFrom(s, at + 1)

\* match.replace('.', '')
RemoveDots(s) == SelectSeq(s, LAMBDA c : c # ".")

\* 1500000 <= price <= 100000000 with the lower bound at 1000000
InBand_LowFloor(price) == 1000000 <= price /\ price <= 100000000

\* 1500000 <= price <= 100000000 without the upper bound
InBand_NoCeiling(price) == 1500000 <= price

\* 1500000 <= price <= 100000000
InBand(price) == 1500000 <= price /\ price <= 100000000

\* the loop over price_matches (lines 131-140): the amounts int() takes that
\* lie inside the band, in page order
PricesInBand(matches) ==
    LET amounts == [k \in 1..Len(matches) |-> PyIntOfDigits(RemoveDots(matches[k]))]
        kept == SelectSeq(amounts, LAMBDA p : ~IsNone(p) /\ ~IsBig(p) /\ InBand(Val(p)))
    IN  [k \in 1..Len(kept) |-> Val(kept[k])]

\* the elements of the set S in ascending order
RECURSIVE SortedSeq(_)
SortedSeq(S) ==
    IF S = {} THEN <<>> ELSE <<SetMin(S)>> \o SortedSeq(S \ {SetMin(S)})

\* list(set(prices_found)) without set(): the list as it was
PyListOfSet_Keep(xs) == xs

\* list(set(prices_found)): each element once.  The order of the list is not
\* read (only its sum, length, minimum and maximum are); it is kept ascending.
PyListOfSet(xs) == SortedSeq({ xs[k] : k \in 1..Len(xs) })

\* lines 126-140: the list prices_found before the removal of duplicates
RawPrices(text) == PricesInBand(FindAllPricesFrom(text, 1))

\* lines 126-143: the candidates of a page text
ParsePrices(text) == PyListOfSet(RawPrices(text))

\* The fragments a page text is put together from: amounts inside, at the
\* edges of and outside the band, with and without grouping, and prose.
Fragments ==
    { <<"$", "1", ".", "2", "0", "0", ".", "0", "0", "0">>,
      <<"$", "9", "9", "9">>,
      <<"$", " ", "9", ".", "0", "0", "0", ".", "0", "0", "0">>,
      <<"$", "9", ".", "0", "0", "0", ".", "0", "0", "0">>,
      <<"$", "9", ".", "4", "0", "0", ".", "0", "0", "0">>,
      <<"$", "8", ".", "8", "0", "0", ".", "0", "0", "0">>,
      <<"$", "1", ".", "5", "0", "0", ".", "0", "0", "0">>,
      <<"$", "1", ".", "4", "9", "9", ".", "9", "9", "9">>,
      <<"$", "1", "0", "0", ".", "0", "0", "0", ".", "0", "0", "0">>,
      <<"$", "1", "0", "0", ".", "0", "0", "0", ".", "0", "0", "1">>,
      <<"$", "1", "2", "0", "0", "0", "0", "0", "0">>,
      <<" ", "P", "r", "e", "c", "i", "o", " ">> }

\* a page text has at most MaxFragments fragments
MaxFragments == 3

RECURSIVE Concat(_)
Concat(fs) == IF fs = <<>> THEN <<>> ELSE Head(fs) \o Concat(Tail(fs))

PageTextsOf(n) == { Concat(fs) : fs \in UNION { [1..k -> Fragments] : k \in 0..n } }
PageTexts == PageTextsOf(MaxFragments)

----------------------------------------------------------------------------
(* execution/scrape_market_prices.py: the listings of MercadoLibre *)

\* the characters of the digits part of a text int() takes
IntChars == Digits \cup {"_"}

\* int(year) of a text: surrounding whitespace, a sign, then digits, single
\* underscores between them; the int, None when int() raises (the text is no
\* number, or has more than IntMaxStrDigits digits).
PyIntOfText(text) ==
    IF IsNone(text) THEN None
    ELSE LET t == StripOf(Val(text), IntWhitespace)
             signed == Len(t) >= 1 /\ t[1] \in {"+", "-"}
             body == IF signed THEN Tail(t) ELSE t
             wellFormed ==
                 /\ Len(body) >= 1
                 /\ \A i \in 1..Len(body) : body[i] \in IntChars
                 /\ body[1] # "_" /\ body[Len(body)] # "_"
                 /\ \A i \in 1..(Len(body) - 1) : ~(body[i] = "_" /\ body[i + 1] = "_")
             digits == SelectSeq(body, LAMBDA c : c # "_")
         IN  IF ~wellFormed \/ Len(digits) > IntMaxStrDigits THEN None
             ELSE PyLong(signed /\ t[1] = "-", digits)

\* lines 226-231 with a tolerance of three years
YearWindow_Wide(year) ==
    IF IsNone(PyIntOfText(year)) THEN <<PyInt(1990), PyInt(2030)>>
    ELSE <<PyAdd(PyIntOfText(year), -3), PyAdd(PyIntOfText(year), 3)>>

\* lines 226-231 with the window of an unparseable year starting at 2000
YearWindow_LateDefault(year) ==
    IF IsNone(PyIntOfText(year)) THEN <<PyInt(2000), PyInt(2030)>>
    ELSE <<PyAdd(PyIntOfText(year), -2), PyAdd(PyIntOfText(year), 2)>>

\* lines 226-231: <<min_year, max_year>>, two ints: two years around the
\* target year, 1990 to 2030 when int(year) raises
YearWindow(year) ==
    IF IsNone(PyIntOfText(year)) THEN <<PyInt(1990), PyInt(2030)>>
    ELSE <<PyAdd(PyIntOfText(year), -2), PyAdd(PyIntOfText(year), 2)>>

\* \b(19|20)\d{2}\b matches at i
YearAt(s, i) ==
    /\ i + 3 <= Len(s)
    /\ SubSeq(s, i, i + 1) \in { <<"1", "9">>, <<"2", "0">> }
    /\ s[i + 2] \in Digits /\ s[i + 3] \in Digits
    /\ IsBoundary(s, i) /\ IsBoundary(s, i + 4)

\* lines 241-242: the first year of the text of a listing, None without one
ListingYear(text) ==
    LET at == { i \in 1..Len(text) : YearAt(text, i) }
    IN  IF at = {} THEN None
        ELSE PyIntOfDigits(SubSeq(text, SetMin(at), SetMin(at) + 3))

\* \$\s*[\d.,]+ matches at i
AmountAt(s, i) ==
    /\ s[i] = "$"
    /\ RunLen(s, i + 1 + RunLen(s, i + 1, Whitespace), Digits \cup {".", ","}) >= 1

\* lines 245-247: the digits of the first amount of the text of a listing,
\* None without an amount
ListingPriceDigits(text) ==
    LET at == { i \in 1..Len(text) : AmountAt(text, i) }
        i == SetMin(at)
        from == i + 1 + RunLen(text, i + 1, Whitespace)
        upto == from + RunLen(text, from, Digits \cup {".", ","}) - 1
    IN  IF at = {} THEN None
        ELSE <<SelectSeq(SubSeq(text, from, upto), LAMBDA c : c \in Digits)>>

\* lines 242-255: the candidate of a listing, None without one: the year of
\* the listing lies in the window <<min_year, max_year>>, its amount has seven
\* digits or more, int() takes it and it lies in the band
ListingPrice(text, window) ==
    LET listing_year == ListingYear(text)
        price_clean == ListingPriceDigits(text)
        price == PyIntOfDigits(Val(price_clean))
    IN  IF /\ ~IsNone(listing_year)
           /\ PyLeq(window[1], listing_year) /\ PyLeq(listing_year, window[2])
           /\ ~IsNone(price_clean)
           /\ Len(Val(price_clean)) >= 7
           /\ ~IsNone(price) /\ ~IsBig(price) /\ InBand(Val(price))
        THEN price ELSE None

\* lines 233-255: the candidates of the listings of a page, in page order
RECURSIVE ListingPricesFrom(_, _, _)
ListingPricesFrom(texts, k, window) ==
    IF k > Len(texts) THEN <<>>
    ELSE ListingPrice(texts[k], window) \o ListingPricesFrom(texts, k + 1, window)

\* lines 225-255: the list prices before the removal of duplicates
RawListingPrices(texts, year) == ListingPricesFrom(texts, 1, YearWindow(year))

\* lines 225-257
ParseListings(texts, year) == PyListOfSet(RawListingPrices(texts, year))

----------------------------------------------------------------------------
(* execution/scrape_market_prices.py: search_market_price *)

\* The arguments: a make in mixed case and padded; a one-word model, a model
\* of several words with an engine size, a blank model; a year that int()
\* takes, one of eleven digits, one of more digits than int() takes and one
\* that is no number.  Every model comes with the year 2018 and every year
\* with the model COROLLA.
MarketMakes == { <<" ", "M", "a", "z", "d", "a", " ">> }
MarketModels ==
    { <<"C", "O", "R", "O", "L", "L", "A">>,
      <<"G", "r", "a", "n", "d", " ", "V", "i", "t", "a", "r", "a", " ", "2", ".", "0">>,
      <<" ">> }
MarketYears ==
    { <<<<"2", "0", "1", "8">>>>, <<<<"d", "o", "s", " ", "m", "i", "l">>>>,
      <<<<"2", "0", "1", "8", "0", "0", "0", "0", "0", "0", "0">>>>,
      <<SubSeq([i \in 1..(IntMaxStrDigits + 1) |-> "1"], 1, IntMaxStrDigits + 1)>> }
MarketQueries ==
    { q \in [make : MarketMakes, model : MarketModels, year : MarketYears] :
          \/ q.year = <<<<"2", "0", "1", "8">>>>
          \/ q.model = <<"C", "O", "R", "O", "L", "L", "A">> }

\* The page texts of autofact.cl and chileautos.cl: one fragment, the same
\* amount twice ("$9.000.000$ 9.000.000 Precio "), two amounts and three
\* amounts ("$ 9.000.000$9.400.000$8.800.000").
MarketTexts ==
    PageTextsOf(1)
    \cup {
        <<"$", "9", ".", "0", "0", "0", ".", "0", "0", "0", "$", " ", "9",
          ".", "0", "0", "0", ".", "0", "0", "0", " ", "P", "r", "e", "c",
          "i", "o", " ">>,
        <<"$", "9", ".", "0", "0", "0", ".", "0", "0", "0", "$", "9", ".",
          "4", "0", "0", ".", "0", "0", "0">>,
        <<"$", " ", "9", ".", "0", "0", "0", ".", "0", "0", "0", "$", "9",
          ".", "4", "0", "0", ".", "0", "0", "0", "$", "8", ".", "8", "0",
          "0", ".", "0", "0", "0">> }

\* The text of a listing: a title, its year (none, inside, at the edges of
\* and outside the windows) and its amount (inside the band; for one
\* listing none, for one an amount of six digits).
ListingAmounts ==
    [low |-> <<"$", " ", "9", ".", "0", "0", "0", ".", "0", "0", "0">>,
     high |-> <<"$", "1", "2", ".", "5", "0", "0", ".", "0", "0", "0">>]
ListingsShown ==
    { <<<<>>, ListingAmounts.low>>,
      <<<<"2", "0", "1", "6">>, ListingAmounts.low>>,
      <<<<"2", "0", "1", "6">>, ListingAmounts.high>>,
      <<<<"2", "0", "1", "5">>, ListingAmounts.high>>,
      <<<<"2", "0", "2", "0">>, ListingAmounts.low>>,
      <<<<"2", "0", "2", "1">>, ListingAmounts.low>>,
      <<<<"1", "9", "9", "0">>, ListingAmounts.high>>,
      <<<<"1", "9", "8", "9">>, ListingAmounts.low>> }
ListingTexts ==
    { Concat(<<<<"M", "a", "z", "d", "a", " ">>, shown[1], <<" ">>, shown[2]>>) :
          shown \in ListingsShown }
    \cup { <<"M", "a", "z", "d", "a", " ", "2", "0", "1", "6">>,
           <<"M", "a", "z", "d", "a", " ", "2", "0", "1", "6", " ",
             "$", " ", "9", "9", "0", ".", "0", "0", "0">> }

\* the MercadoLibre page has at most MaxListings listings
MaxListings == 2
ListingPages == UNION { [1..k -> ListingTexts] : k \in 0..MaxListings }

RECURSIVE SumSeq(_)
SumSeq(xs) == IF xs = <<>> THEN 0 ELSE Head(xs) + SumSeq(Tail(xs))

\* lines 66-77: the dict result before any strategy
InitialResult(q) ==
    [success |-> FALSE, make |-> q.make, model |-> q.model, year |-> q.year,
     listings |-> <<>>, average_price |-> None, min_price |-> None,
     max_price |-> None, source |-> None, error |-> None]

\* lines 146-151 as copied to every strategy, the name of the source included
Aggregate_Autofact(res, found, source) ==
    [success |-> TRUE, make |-> res.make, model |-> res.model, year |-> res.year,
     listings |-> res.listings, average_price |-> PyInt(SumSeq(found) \div Len(found)),
     min_price |-> PyInt(SetMin({ found[k] : k \in 1..Len(found) })),
     max_price |-> PyInt(SetMax({ found[k] : k \in 1..Len(found) })),
     source |-> <<"autofact.cl">>, error |-> res.error, num_listings |-> Len(found)]

\* lines 146-151 with the sum in place of the mean
Aggregate_Sum(res, found, source) ==
    [success |-> TRUE, make |-> res.make, model |-> res.model, year |-> res.year,
     listings |-> res.listings, average_price |-> PyInt(SumSeq(found)),
     min_price |-> PyInt(SetMin({ found[k] : k \in 1..Len(found) })),
     max_price |-> PyInt(SetMax({ found[k] : k \in 1..Len(found) })),
     source |-> <<source>>, error |-> res.error, num_listings |-> Len(found)]

\* lines 146-151 (and 194-199, 260-265, 302-307): the estimate over the
\* candidates found; int(sum / len) is the quotient rounded towards zero.
Aggregate(res, found, source) ==
    [success |-> TRUE, make |-> res.make, model |-> res.model, year |-> res.year,
     listings |-> res.listings, average_price |-> PyInt(SumSeq(found) \div Len(found)),
     min_price |-> PyInt(SetMin({ found[k] : k \in 1..Len(found) })),
     max_price |-> PyInt(SetMax({ found[k] : k \in 1..Len(found) })),
     source |-> <<source>>, error |-> res.error, num_listings |-> Len(found)]

\* line 103
make_lower(q) == PyStrip(PyLower(q.make))
\* line 104
model_url(q) == normalize_model_for_url(q.model)
\* line 164: model.split()[0].lower().replace('-', '_'); the model has a word
model_simple(q) == PyReplace(PyLower(PySplit(q.model)[1]), "-", "_")

\* the URL of a strategy: its site and the make, model and year in its path
Url(site, model) ==
    [site |-> site, make |-> locals.make_lower, model |-> model, year |-> query.year]

MarketIdle ==
    /\ query = None
    /\ strategy = "done"
    /\ driver = "none"
    /\ locals = None
    /\ result = None
    /\ listings = <<>>
    /\ prices = <<>>
    /\ fetched = <<>>
    /\ yields = <<>>

MarketInit ==
    /\ query \in MarketQueries
    /\ strategy = "start"
    /\ driver = "none"
    /\ locals = None
    /\ result = InitialResult(query)
    /\ listings = <<>>
    /\ prices = <<>>
    /\ fetched = <<>>
    /\ yields = <<>>

\* One run of a strategy: its source, whether it raised, the amounts it
\* appended to its list and its candidates, the list without duplicates.
Yield(name, source, raised, appended) ==
    [strategy |-> name, source |-> source, raised |-> raised,
     appended |-> appended, prices |-> PyListOfSet(appended)]

\* The finally clause and `return result` (lines 326-330): an open driver is
\* quit, outside any try: when driver.quit() raises, the call raises in place
\* of returning result.
Return(res) ==
    /\ result' = res
    /\ IF driver = "open"
       THEN driver' = "quit" /\ strategy' \in {"done", "raised"}
       ELSE driver' = driver /\ strategy' = "done"

\* the except clause of the whole body (lines 320-324)
Unexpected(res) == [res EXCEPT !.error = <<"Unexpected error: {str(e)}">>]

\* a strategy without candidates hands over to the next one
HandOver(next) ==
    /\ strategy' = next
    /\ UNCHANGED <<result, driver>>

\* Lines 86-104: the headless browser starts.
StartBrowser ==
    /\ strategy = "start"
    /\ driver' = "open"
    /\ strategy' = "autofact"
    /\ locals' = [make_lower |-> make_lower(query), model_url |-> model_url(query)]
    /\ UNCHANGED <<query, result, listings, prices, fetched, yields>>
    /\ UNCHANGED <<pricingVars, quotaVars, handlerVars, plateVars, parserVars, normalizerVars, valuationVars, scraperVars>>

\* Lines 86-99 raise: the except clause of the whole body records the error
\* and there is no driver to quit.
BrowserFails ==
    /\ strategy = "start"
    /\ result' = Unexpected(result)
    /\ strategy' = "done"
    /\ UNCHANGED <<query, locals, driver, listings, prices, fetched, yields>>
    /\ UNCHANGED <<pricingVars, quotaVars, handlerVars, plateVars, parserVars, normalizerVars, valuationVars, scraperVars>>

\* Line 100 raises once line 99 has bound the driver: the except clause of the
\* whole body records the error and the finally clause quits the driver, no
\* page asked for.
PageLoadTimeoutFails ==
    /\ strategy = "start"
    /\ result' = Unexpected(result)
    /\ driver' = "quit"
    /\ strategy' \in {"done", "raised"}
    /\ UNCHANGED <<query, locals, listings, prices, fetched, yields>>
    /\ UNCHANGED <<pricingVars, quotaVars, handlerVars, plateVars, parserVars, normalizerVars, valuationVars, scraperVars>>

\* Lines 110-157: strategy 1, the page of autofact.cl for the normalized model.
Autofact ==
    /\ strategy = "autofact"
    /\ fetched' = Append(fetched, Url("autofact.cl", locals.model_url))
    /\ \E text \in MarketTexts :
          LET prices_found == ParsePrices(text)
          IN  /\ yields' = Append(yields, Yield(1, "autofact.cl", FALSE, RawPrices(text)))
              /\ IF prices_found # <<>>
                 THEN Return(Aggregate(result, prices_found, "autofact.cl"))
                 ELSE HandOver("simplified")
    /\ UNCHANGED <<query, locals, listings, prices>>
    /\ UNCHANGED <<pricingVars, quotaVars, handlerVars, plateVars, parserVars, normalizerVars, valuationVars, scraperVars>>

\* Lines 159-160: strategy 1 raises (the page load, the write of the page or
\* of the screenshot under .tmp, the parse) and the exception is printed.
AutofactFails ==
    /\ strategy = "autofact"
    /\ fetched' = Append(fetched, Url("autofact.cl", locals.model_url))
    /\ yields' = Append(yields, Yield(1, "autofact.cl", TRUE, <<>>))
    /\ HandOver("simplified")
    /\ UNCHANGED <<query, locals, listings, prices>>
    /\ UNCHANGED <<pricingVars, quotaVars, handlerVars, plateVars, parserVars, normalizerVars, valuationVars, scraperVars>>

\* Line 164: model.split() of a blank model is empty and [0] raises
\* IndexError outside the try of any strategy: the except clause of the whole
\* body ends the call.
SimplifiedUnbuildable ==
    /\ strategy = "simplified"
    /\ PySplit(query.model) = <<>>
    /\ Return(Unexpected(result))
    /\ UNCHANGED <<query, locals, listings, prices, fetched, yields>>
    /\ UNCHANGED <<pricingVars, quotaVars, handlerVars, plateVars, parserVars, normalizerVars, valuationVars, scraperVars>>

\* Line 165: the simplified model is the normalized one, strategy 2 is skipped.
SimplifiedSkipped ==
    /\ strategy = "simplified"
    /\ PySplit(query.model) # <<>>
    /\ model_simple(query) = locals.model_url
    /\ HandOver("mercadolibre")
    /\ locals' = [make_lower |-> locals.make_lower, model_url |-> locals.model_url,
                  model_simple |-> model_simple(query)]
    /\ UNCHANGED <<query, listings, prices, fetched, yields>>
    /\ UNCHANGED <<pricingVars, quotaVars, handlerVars, plateVars, parserVars, normalizerVars, valuationVars, scraperVars>>

\* Lines 166-202: strategy 2, the page of autofact.cl for the first word of
\* the model.
AutofactSimplified ==
    /\ strategy = "simplified"
    /\ PySplit(query.model) # <<>>
    /\ model_simple(query) # locals.model_url
    /\ fetched' = Append(fetched, Url("autofact.cl", model_simple(query)))
    /\ \E text \in MarketTexts :
          LET prices_found == ParsePrices(text)
          IN  /\ yields' = Append(yields, Yield(2, "autofact.cl", FALSE, RawPrices(text)))
              /\ IF prices_found # <<>>
                 THEN Return(Aggregate(result, prices_found, "autofact.cl"))
                 ELSE HandOver("mercadolibre")
    /\ locals' = [make_lower |-> locals.make_lower, model_url |-> locals.model_url,
                  model_simple |-> model_simple(query)]
    /\ UNCHANGED <<query, listings, prices>>
    /\ UNCHANGED <<pricingVars, quotaVars, handlerVars, plateVars, parserVars, normalizerVars, valuationVars, scraperVars>>

\* Lines 204-205: strategy 2 raises and the exception is printed.
AutofactSimplifiedFails ==
    /\ strategy = "simplified"
    /\ PySplit(query.model) # <<>>
    /\ model_simple(query) # locals.model_url
    /\ fetched' = Append(fetched, Url("autofact.cl", model_simple(query)))
    /\ yields' = Append(yields, Yield(2, "autofact.cl", TRUE, <<>>))
    /\ HandOver("mercadolibre")
    /\ locals' = [make_lower |-> locals.make_lower, model_url |-> locals.model_url,
                  model_simple |-> model_simple(query)]
    /\ UNCHANGED <<query, listings, prices>>
    /\ UNCHANGED <<pricingVars, quotaVars, handlerVars, plateVars, parserVars, normalizerVars, valuationVars, scraperVars>>

\* Lines 208-257: strategy 3, the listings of the MercadoLibre page, the year
\* window min_year..max_year, the loop over the listings and the removal of
\* duplicates.
MercadoLibre ==
    /\ strategy = "mercadolibre"
    /\ fetched' = Append(fetched, Url("mercadolibre.cl", locals.model_url))
    /\ locals' = [make_lower |-> locals.make_lower, model_url |-> locals.model_url,
                  model_simple |-> locals.model_simple,
                  min_year |-> YearWindow(query.year)[1],
                  max_year |-> YearWindow(query.year)[2]]
    /\ \E page \in ListingPages :
          LET appended == ListingPricesFrom(page, 1, <<locals'.min_year, locals'.max_year>>)
          IN  /\ listings' = page
              /\ prices' = PyListOfSet(appended)
              /\ yields' = Append(yields, Yield(3, "mercadolibre.cl", FALSE, appended))
    /\ HandOver("prices")
    /\ UNCHANGED query
    /\ UNCHANGED <<pricingVars, quotaVars, handlerVars, plateVars, parserVars, normalizerVars, valuationVars, scraperVars>>

\* Lines 270-271: strategy 3 raises (the page load, the write of the page or
\* of the screenshot under .tmp, the parse) and the exception is printed.
MercadoLibreFails ==
    /\ strategy = "mercadolibre"
    /\ fetched' = Append(fetched, Url("mercadolibre.cl", locals.model_url))
    /\ yields' = Append(yields, Yield(3, "mercadolibre.cl", TRUE, <<>>))
    /\ HandOver("chileautos")
    /\ UNCHANGED <<query, locals, listings, prices>>
    /\ UNCHANGED <<pricingVars, quotaVars, handlerVars, plateVars, parserVars, normalizerVars, valuationVars, scraperVars>>

\* Lines 259-268: with candidates the estimate is returned; without, the
\* locals of strategy 3 are left behind.
DecideMercadoLibre ==
    /\ strategy = "prices"
    /\ IF prices # <<>>
       THEN /\ Return(Aggregate(result, prices, "mercadolibre.cl"))
            /\ UNCHANGED <<listings, prices>>
       ELSE /\ HandOver("chileautos")
            /\ listings' = <<>>
            /\ prices' = <<>>
    /\ UNCHANGED <<query, locals, fetched, yields>>
    /\ UNCHANGED <<pricingVars, quotaVars, handlerVars, plateVars, parserVars, normalizerVars, valuationVars, scraperVars>>

\* Lines 274-318: strategy 4, the page of chileautos.cl for the first word of
\* the model; without candidates no source worked.
ChileAutos ==
    /\ strategy = "chileautos"
    /\ fetched' = Append(fetched, Url("chileautos.cl", locals.model_simple))
    /\ \E text \in MarketTexts :
          LET prices_found == ParsePrices(text)
          IN  /\ yields' = Append(yields, Yield(4, "chileautos.cl", FALSE, RawPrices(text)))
              /\ IF prices_found # <<>>
                 THEN Return(Aggregate(result, prices_found, "chileautos.cl"))
                 ELSE Return([result EXCEPT
                                  !.error = <<"No prices found from any source">>])
    /\ UNCHANGED <<query, locals, listings, prices>>
    /\ UNCHANGED <<pricingVars, quotaVars, handlerVars, plateVars, parserVars, normalizerVars, valuationVars, scraperVars>>

\* Lines 312-318: strategy 4 raises, the exception is printed, no source worked.
ChileAutosFails ==
    /\ strategy = "chileautos"
    /\ fetched' = Append(fetched, Url("chileautos.cl", locals.model_simple))
    /\ yields' = Append(yields, Yield(4, "chileautos.cl", TRUE, <<>>))
    /\ Return([result EXCEPT !.error = <<"No prices found from any source">>])
    /\ UNCHANGED <<query, locals, listings, prices>>
    /\ UNCHANGED <<pricingVars, quotaVars, handlerVars, plateVars, parserVars, normalizerVars, valuationVars, scraperVars>>

MarketNext ==
    \/ StartBrowser
    \/ BrowserFails
    \/ PageLoadTimeoutFails
    \/ Autofact
    \/ AutofactFails
    \/ SimplifiedUnbuildable
    \/ SimplifiedSkipped
    \/ AutofactSimplified
    \/ AutofactSimplifiedFails
    \/ MercadoLibre
    \/ MercadoLibreFails
    \/ DecideMercadoLibre
    \/ ChileAutos
    \/ ChileAutosFails

----------------------------------------------------------------------------
(* The price parser on its own: lines 126-143 applied to a page text *)

ParserIdle ==
    /\ page_text = <<>>
    /\ parses = <<>>

ParserInit ==
    /\ page_text \in PageTexts
    /\ parses = <<>>

\* the page text is parsed, and parsed once more
ParsePage ==
    /\ Len(parses) < 2
    /\ parses' = Append(parses, ParsePrices(page_text))
    /\ UNCHANGED page_text
    /\ UNCHANGED <<pricingVars, quotaVars, handlerVars, plateVars, marketVars, normalizerVars, valuationVars, scraperVars>>

ParserNext == ParsePage

----------------------------------------------------------------------------
(* execution/gemini_valuation.py: get_vehicle_valuation *)

\* json: the whitespace between tokens
JsonWhitespace == {" ", "\t", "\n", "\r"}

SkipWhitespace(s, i) == i + RunLen(s, i, JsonWhitespace)

\* a parse that raised JSONDecodeError, in place of <<the position after the
\* value, the value>>
NoParse == <<0, <<"error">>>>

\* a parse that raised the ValueError of int() on an integer of n digits
IntTooLong(n) == <<0, <<"ValueError", n>>>>

\* a parse that raised RecursionError where it was to open an object or an
\* array
TooDeep(kind) ==
    <<0, <<"RecursionError", "maximum recursion depth exceeded while decoding a JSON "
                                 \o kind \o " from a unicode string">>>>

\* a parse in which the scanner itself raises JSONDecodeError (a string, a
\* key, a colon or a comma is not as it must be), room more objects and arrays
\* fitting where it does: the scanner calls the class of the exception, and
\* with less than three calls left that call raises RecursionError
ScanError(room) ==
    IF room >= 3 THEN NoParse
    ELSE IF room = 1 THEN <<0, <<"RecursionError", "maximum recursion depth exceeded">>>>
    ELSE <<0, <<"RecursionError",
                "maximum recursion depth exceeded while calling a Python object">>>>

\* chr(n) for n < 256, at n + 1; a character with no form in a string here
\* goes by a name, its code point in hexadecimal for most
Latin1 ==
    <<
       "u0000", "u0001", "u0002", "u0003", "u0004", "u0005", "u0006", "u0007",
       "u0008", "\t", "\n", "vt", "\f", "\r", "u000e", "u000f", "u0010",
       "u0011", "u0012", "u0013", "u0014", "u0015", "u0016", "u0017", "u0018",
       "u0019", "u001a", "u001b", "fs", "gs", "rs", "us", " ", "!", "\"", "#",
       "$", "%", "&", "'", "(", ")", "*", "+", ",", "-", ".", "/", "0", "1",
       "2", "3", "4", "5", "6", "7", "8", "9", ":", ";", "<", "=", ">", "?",
       "@", "A", "B", "C", "D", "E", "F", "G", "H", "I", "J", "K", "L", "M",
       "N", "O", "P", "Q", "R", "S", "T", "U", "V", "W", "X", "Y", "Z", "[",
       "\\", "]", "^", "_", "u0060", "a", "b", "c", "d", "e", "f", "g", "h",
       "i", "j", "k", "l", "m", "n", "o", "p", "q", "r", "s", "t", "u", "v",
       "w", "x", "y", "z", "{", "|", "}", "~", "u007f", "u0080", "u0081",
       "u0082", "u0083", "u0084", "nel", "u0086", "u0087", "u0088", "u0089",
       "u008a", "u008b", "u008c", "u008d", "u008e", "u008f", "u0090", "u0091",
       "u0092", "u0093", "u0094", "u0095", "u0096", "u0097", "u0098", "u0099",
       "u009a", "u009b", "u009c", "u009d", "u009e", "u009f", "nbsp", "¡", "¢",
       "£", "¤", "¥", "¦", "§", "¨", "©", "ª", "«", "¬", "­", "®", "¯", "°",
       "±", "²", "³", "´", "µ", "¶", "·", "¸", "¹", "º", "»", "¼", "½", "¾",
       "¿", "À", "Á", "Â", "Ã", "Ä", "Å", "Æ", "Ç", "È", "É", "Ê", "Ë", "Ì",
       "Í", "Î", "Ï", "Ð", "Ñ", "Ò", "Ó", "Ô", "Õ", "Ö", "×", "Ø", "Ù", "Ú",
       "Û", "Ü", "Ý", "Þ", "ß", "à", "á", "â", "ã", "ä", "å", "æ", "ç", "è",
       "é", "ê", "ë", "ì", "í", "î", "ï", "ð", "ñ", "ò", "ó", "ô", "õ", "ö",
       "÷", "ø", "ù", "ú", "û", "ü", "ý", "þ", "ÿ" >>

HexDigits == <<"0", "1", "2", "3", "4", "5", "6", "7", "8", "9", "a", "b", "c", "d", "e", "f">>
UpperHexDigits == <<"0", "1", "2", "3", "4", "5", "6", "7", "8", "9", "A", "B", "C", "D", "E", "F">>

IsHexDigit(c) == \E k \in 1..16 : HexDigits[k] = c \/ UpperHexDigits[k] = c
HexValue(c) == (CHOOSE k \in 1..16 : HexDigits[k] = c \/ UpperHexDigits[k] = c) - 1

\* the number of the four hexadecimal digits of s from i on
HexAt(s, i) ==
    ((HexValue(s[i]) * 16 + HexValue(s[i + 1])) * 16 + HexValue(s[i + 2])) * 16
        + HexValue(s[i + 3])

\* n in hexadecimal, of `width` digits or more
RECURSIVE HexText(_, _)
HexText(n, width) ==
    IF n = 0 /\ width <= 0 THEN ""
    ELSE HexText(n \div 16, width - 1) \o HexDigits[(n % 16) + 1]

\* chr(n)
PyChr(n) == IF n < 256 THEN Latin1[n + 1] ELSE "u" \o HexText(n, 4)

\* the characters a json string holds only escaped
ControlChars == { Latin1[n] : n \in 1..32 }

\* the characters after a backslash that stand for one character
SimpleEscapes == {"\"", "\\", "/", "b", "f", "n", "r", "t"}
Unescaped(c) ==
    CASE c = "b" -> PyChr(8)
      [] c = "f" -> "\f"
      [] c = "n" -> "\n"
      [] c = "r" -> "\r"
      [] c = "t" -> "\t"
      [] OTHER -> c

\* four hexadecimal digits start at i
IsHexAt(s, i) == i + 3 <= Len(s) /\ \A k \in 0..3 : IsHexDigit(s[i + k])

\* the number of characters from i on before the first one of the set cs
RunUntil(s, i, cs) ==
    CHOOSE n \in 0..(Len(s) - i + 1) :
        /\ n = Len(s) - i + 1 \/ s[i + n] \in cs
        /\ \A k \in 0..(n - 1) : s[i + k] \notin cs

\* json: the characters of a string from i on, after those in acc, up to the
\* closing quote.  \uXXXX is the character of that number, and a high
\* surrogate with the escape of a low one after it is one character.
RECURSIVE ScanString(_, _, _)
ScanString(s, i, acc) ==
    LET At(j) ==
            LET chars == acc \o SubSeq(s, i, j - 1)
                Pair(c, c2) ==
                    IF 56320 <= c2 /\ c2 <= 57343
                    THEN ScanString(s, j + 12,
                                    Append(chars, PyChr(65536 + (c - 55296) * 1024 + (c2 - 56320))))
                    ELSE ScanString(s, j + 6, Append(chars, PyChr(c)))
                Escape(c) ==
                    IF ~(/\ 55296 <= c /\ c <= 56319
                         /\ j + 12 <= Len(s)
                         /\ s[j + 6] = "\\" /\ s[j + 7] = "u")
                    THEN ScanString(s, j + 6, Append(chars, PyChr(c)))
                    ELSE IF ~IsHexAt(s, j + 8) THEN NoParse
                    ELSE Pair(c, HexAt(s, j + 8))
            IN  IF j > Len(s) THEN NoParse
                ELSE IF s[j] = "\"" THEN <<j + 1, <<"str", chars>>>>
                ELSE IF s[j] # "\\" THEN NoParse
                ELSE IF j + 1 > Len(s) THEN NoParse
                ELSE IF s[j + 1] \in SimpleEscapes
                     THEN ScanString(s, j + 2, Append(chars, Unescaped(s[j + 1])))
                ELSE IF s[j + 1] # "u" THEN NoParse
                ELSE IF ~(j + 6 <= Len(s) /\ IsHexAt(s, j + 2)) THEN NoParse
                ELSE Escape(HexAt(s, j + 2))
    IN  At(i + RunUntil(s, i, {"\"", "\\"} \cup ControlChars))

\* json: a string that starts at i
JsonString(s, i) ==
    IF ~(i >= 1 /\ i <= Len(s) /\ s[i] = "\"") THEN NoParse
    ELSE ScanString(s, i + 1, <<>>)

\* 2^1024 - 2^970: a decimal from here on is nearer to 2^1024 than to the
\* largest float, and float() of it is inf
FloatOverflow ==
    <<
       "1", "7", "9", "7", "6", "9", "3", "1", "3", "4", "8", "6", "2", "3",
       "1", "5", "8", "0", "7", "9", "3", "7", "2", "8", "9", "7", "1", "4",
       "0", "5", "3", "0", "3", "4", "1", "5", "0", "7", "9", "9", "3", "4",
       "1", "3", "2", "7", "1", "0", "0", "3", "7", "8", "2", "6", "9", "3",
       "6", "1", "7", "3", "7", "7", "8", "9", "8", "0", "4", "4", "4", "9",
       "6", "8", "2", "9", "2", "7", "6", "4", "7", "5", "0", "9", "4", "6",
       "6", "4", "9", "0", "1", "7", "9", "7", "7", "5", "8", "7", "2", "0",
       "7", "0", "9", "6", "3", "3", "0", "2", "8", "6", "4", "1", "6", "6",
       "9", "2", "8", "8", "7", "9", "1", "0", "9", "4", "6", "5", "5", "5",
       "5", "4", "7", "8", "5", "1", "9", "4", "0", "4", "0", "2", "6", "3",
       "0", "6", "5", "7", "4", "8", "8", "6", "7", "1", "5", "0", "5", "8",
       "2", "0", "6", "8", "1", "9", "0", "8", "9", "0", "2", "0", "0", "0",
       "7", "0", "8", "3", "8", "3", "6", "7", "6", "2", "7", "3", "8", "5",
       "4", "8", "4", "5", "8", "1", "7", "7", "1", "1", "5", "3", "1", "7",
       "6", "4", "4", "7", "5", "7", "3", "0", "2", "7", "0", "0", "6", "9",
       "8", "5", "5", "5", "7", "1", "3", "6", "6", "9", "5", "9", "6", "2",
       "2", "8", "4", "2", "9", "1", "4", "8", "1", "9", "8", "6", "0", "8",
       "3", "4", "9", "3", "6", "4", "7", "5", "2", "9", "2", "7", "1", "9",
       "0", "7", "4", "1", "6", "8", "4", "4", "4", "3", "6", "5", "5", "1",
       "0", "7", "0", "4", "3", "4", "2", "7", "1", "1", "5", "5", "9", "6",
       "9", "9", "5", "0", "8", "0", "9", "3", "0", "4", "2", "8", "8", "0",
       "1", "7", "7", "9", "0", "4", "1", "7", "4", "4", "9", "7", "7", "9",
       "2" >>

\* 5^1075, the digits of 2^-1075 = 5^1075 / 10^1075: float() of a decimal up to
\* here is zero
FloatUnderflow ==
    <<
       "2", "4", "7", "0", "3", "2", "8", "2", "2", "9", "2", "0", "6", "2",
       "3", "2", "7", "2", "0", "8", "8", "2", "8", "4", "3", "9", "6", "4",
       "3", "4", "1", "1", "0", "6", "8", "6", "1", "8", "2", "5", "2", "9",
       "9", "0", "1", "3", "0", "7", "1", "6", "2", "3", "8", "2", "2", "1",
       "2", "7", "9", "2", "8", "4", "1", "2", "5", "0", "3", "3", "7", "7",
       "5", "3", "6", "3", "5", "1", "0", "4", "3", "7", "5", "9", "3", "2",
       "6", "4", "9", "9", "1", "8", "1", "8", "0", "8", "1", "7", "9", "9",
       "6", "1", "8", "9", "8", "9", "8", "2", "8", "2", "3", "4", "7", "7",
       "2", "2", "8", "5", "8", "8", "6", "5", "4", "6", "3", "3", "2", "8",
       "3", "5", "5", "1", "7", "7", "9", "6", "9", "8", "9", "8", "1", "9",
       "9", "3", "8", "7", "3", "9", "8", "0", "0", "5", "3", "9", "0", "9",
       "3", "9", "0", "6", "3", "1", "5", "0", "3", "5", "6", "5", "9", "5",
       "1", "5", "5", "7", "0", "2", "2", "6", "3", "9", "2", "2", "9", "0",
       "8", "5", "8", "3", "9", "2", "4", "4", "9", "1", "0", "5", "1", "8",
       "4", "4", "3", "5", "9", "3", "1", "8", "0", "2", "8", "4", "9", "9",
       "3", "6", "5", "3", "6", "1", "5", "2", "5", "0", "0", "3", "1", "9",
       "3", "7", "0", "4", "5", "7", "6", "7", "8", "2", "4", "9", "2", "1",
       "9", "3", "6", "5", "6", "2", "3", "6", "6", "9", "8", "6", "3", "6",
       "5", "8", "4", "8", "0", "7", "5", "7", "0", "0", "1", "5", "8", "5",
       "7", "6", "9", "2", "6", "9", "9", "0", "3", "7", "0", "6", "3", "1",
       "1", "9", "2", "8", "2", "7", "9", "5", "5", "8", "5", "5", "1", "3",
       "3", "2", "9", "2", "7", "8", "3", "4", "3", "3", "8", "4", "0", "9",
       "3", "5", "1", "9", "7", "8", "0", "1", "5", "5", "3", "1", "2", "4",
       "6", "5", "9", "7", "2", "6", "3", "5", "7", "9", "5", "7", "4", "6",
       "2", "2", "7", "6", "6", "4", "6", "5", "2", "7", "2", "8", "2", "7",
       "2", "2", "0", "0", "5", "6", "3", "7", "4", "0", "0", "6", "4", "8",
       "5", "4", "9", "9", "9", "7", "7", "0", "9", "6", "5", "9", "9", "4",
       "7", "0", "4", "5", "4", "0", "2", "0", "8", "2", "8", "1", "6", "6",
       "2", "2", "6", "2", "3", "7", "8", "5", "7", "3", "9", "3", "4", "5",
       "0", "7", "3", "6", "3", "3", "9", "0", "0", "7", "9", "6", "7", "7",
       "6", "1", "9", "3", "0", "5", "7", "7", "5", "0", "6", "7", "4", "0",
       "1", "7", "6", "3", "2", "4", "6", "7", "3", "6", "0", "0", "9", "6",
       "8", "9", "5", "1", "3", "4", "0", "5", "3", "5", "5", "3", "7", "4",
       "5", "8", "5", "1", "6", "6", "6", "1", "1", "3", "4", "2", "2", "3",
       "7", "6", "6", "6", "7", "8", "6", "0", "4", "1", "6", "2", "1", "5",
       "9", "6", "8", "0", "4", "6", "1", "9", "1", "4", "4", "6", "7", "2",
       "9", "1", "8", "4", "0", "3", "0", "0", "5", "3", "0", "0", "5", "7",
       "5", "3", "0", "8", "4", "9", "0", "4", "8", "7", "6", "5", "3", "9",
       "1", "7", "1", "1", "3", "8", "6", "5", "9", "1", "6", "4", "6", "2",
       "3", "9", "5", "2", "4", "9", "1", "2", "6", "2", "3", "6", "5", "3",
       "8", "8", "1", "8", "7", "9", "6", "3", "6", "2", "3", "9", "3", "7",
       "3", "2", "8", "0", "4", "2", "3", "8", "9", "1", "0", "1", "8", "6",
       "7", "2", "3", "4", "8", "4", "9", "7", "6", "6", "8", "2", "3", "5",
       "0", "8", "9", "8", "6", "3", "3", "8", "8", "5", "8", "7", "9", "2",
       "5", "6", "2", "8", "3", "0", "2", "7", "5", "5", "9", "9", "5", "6",
       "5", "7", "5", "2", "4", "4", "5", "5", "5", "0", "7", "2", "5", "5",
       "1", "8", "9", "3", "1", "3", "6", "9", "0", "8", "3", "6", "2", "5",
       "4", "7", "7", "9", "1", "8", "6", "9", "4", "8", "6", "6", "7", "9",
       "9", "4", "9", "6", "8", "3", "2", "4", "0", "4", "9", "7", "0", "5",
       "8", "2", "1", "0", "2", "8", "5", "1", "3", "1", "8", "5", "4", "5",
       "1", "3", "9", "6", "2", "1", "3", "8", "3", "7", "7", "2", "2", "8",
       "2", "6", "1", "4", "5", "4", "3", "7", "6", "9", "3", "4", "1", "2",
       "5", "3", "2", "0", "9", "8", "5", "9", "1", "3", "2", "7", "6", "6",
       "7", "2", "3", "6", "3", "2", "8", "1", "2", "5" >>

\* the fraction 0.ds is at most the fraction 0.es
FractionLeq(ds, es) ==
    LET at(xs, k) == IF k <= Len(xs) THEN DigitValue(xs[k]) ELSE 0
        longer == IF Len(ds) > Len(es) THEN Len(ds) ELSE Len(es)
        differ == { k \in 1..longer : at(ds, k) # at(es, k) }
    IN  differ = {} \/ at(ds, SetMin(differ)) < at(es, SetMin(differ))

FloatNan == <<"float", "nan">>
FloatInf(negative) == <<"float", "inf", negative>>
FloatZero(negative) == <<"float", "finite", negative, <<"0">>, 0>>

\* float() of a literal of json: NaN, an infinity, or the decimal
\* (-1)^negative * digits * 10^exponent with digits free of leading and
\* trailing zeros, which is the float nearest to the literal up to the 15
\* digits a float holds.  An exponent of eight digits or more is beyond every
\* float for a literal of less than 10^7 characters.
PyFloatOf(negative, whole, fraction, exp_negative, exp_digits) ==
    LET mantissa == whole \o fraction
        Rounded(digits, top) ==
            IF top > 309 \/ (top = 309 /\ FractionLeq(FloatOverflow, digits))
            THEN FloatInf(negative)
            ELSE IF top < -323 \/ (top = -323 /\ FractionLeq(digits, FloatUnderflow))
            THEN FloatZero(negative)
            ELSE <<"float", "finite", negative, digits, top - Len(digits)>>
        Scaled(first, last, e_digits) ==
            IF first > Len(mantissa) THEN FloatZero(negative)
            ELSE IF Len(e_digits) > 7
            THEN (IF exp_negative THEN FloatZero(negative) ELSE FloatInf(negative))
            ELSE Rounded(SubSeq(mantissa, first, last),
                         (last - first + 1)
                             + (IF exp_negative THEN 0 - IntOfDigitsFrom(e_digits, 1, 0)
                                ELSE IntOfDigitsFrom(e_digits, 1, 0))
                             - Len(fraction) + (Len(mantissa) - last))
    IN  Scaled(1 + RunLen(mantissa, 1, {"0"}),
               CHOOSE last \in 0..Len(mantissa) :
                   /\ last = 0 \/ mantissa[last] # "0"
                   /\ \A k \in (last + 1)..Len(mantissa) : mantissa[k] = "0",
               StripZeros(exp_digits))

\* json: a number -?(0|[1-9]\d*)(\.\d+)?([eE][-+]?\d+)? that starts at i: a
\* float with a fraction or an exponent, an int without
JsonNumber(s, i) ==
    LET negative == i <= Len(s) /\ s[i] = "-"
        \* the digits from d to p - 1, frac digits of a fraction that ends before
        \* q, exp digits of an exponent from r on
        Made(d, p, frac, q, r, exp) ==
            IF frac = 0 /\ exp = 0
            THEN (IF p - d > IntMaxStrDigits THEN IntTooLong(p - d)
                  ELSE <<q, <<"int", PyLong(negative, SubSeq(s, d, p - 1))>>>>)
            ELSE <<IF exp = 0 THEN q ELSE r + exp,
                   PyFloatOf(negative, SubSeq(s, d, p - 1), SubSeq(s, p + 1, p + frac),
                             exp # 0 /\ s[r - 1] = "-", SubSeq(s, r, r + exp - 1))>>
        Exponent(d, p, frac, q, r) ==
            Made(d, p, frac, q, r,
                 IF q <= Len(s) /\ s[q] \in {"e", "E"} THEN RunLen(s, r, Digits) ELSE 0)
        Signed(d, p, frac, q) ==
            Exponent(d, p, frac, q,
                     IF q + 1 <= Len(s) /\ s[q + 1] \in {"+", "-"} THEN q + 2 ELSE q + 1)
        Fraction(d, p, frac) == Signed(d, p, frac, IF frac = 0 THEN p ELSE p + 1 + frac)
        Whole(d, run) ==
            IF run = 0 THEN NoParse
            ELSE Fraction(d, d + run,
                          IF d + run <= Len(s) /\ s[d + run] = "."
                          THEN RunLen(s, d + run + 1, Digits) ELSE 0)
        From(d) == Whole(d, IF d <= Len(s) /\ s[d] = "0" THEN 1 ELSE RunLen(s, d, Digits))
    IN  From(IF negative THEN i + 1 ELSE i)

\* the word w starts at i
WordAtJson(s, i, w) == i + Len(w) - 1 <= Len(s) /\ SubSeq(s, i, i + Len(w) - 1) = w

\* dict: the pairs of a sequence of members, the last value of a key kept
DictOf(members) ==
    { members[k] : k \in { k \in 1..Len(members) :
                             \A l \in (k + 1)..Len(members) : members[l][1] # members[k][1] } }

\* json: a value that starts at i: an object <<"dict", pairs>>, an array
\* <<"list", values>>, a string <<"str", characters>>, an int <<"int", int>>,
\* a float, <<"bool", b>> or <<"null">>
RECURSIVE JsonValue(_, _, _)
RECURSIVE JsonMembers(_, _, _, _)
RECURSIVE JsonElements(_, _, _, _)
JsonObject(s, i, room) ==
    LET At(j) ==
            IF j > Len(s) THEN ScanError(room)
            ELSE IF s[j] = "}" THEN <<j + 1, <<"dict", {}>>>>
            ELSE JsonMembers(s, j, <<>>, room)
    IN  At(SkipWhitespace(s, i + 1))

\* json: the members of an object from the key at i on, after those in acc
JsonMembers(s, i, acc, room) ==
    LET AfterMember(next, members) ==
            IF next > Len(s) THEN ScanError(room)
            ELSE IF s[next] = "}" THEN <<next + 1, <<"dict", DictOf(members)>>>>
            ELSE IF s[next] = ","
                 THEN JsonMembers(s, SkipWhitespace(s, next + 1), members, room)
            ELSE ScanError(room)
        AfterValue(key, value) ==
            IF value[1] = 0 THEN value
            ELSE AfterMember(SkipWhitespace(s, value[1]), Append(acc, <<key[2][2], value[2]>>))
        AfterKey(key, colon) ==
            IF key[1] = 0 THEN ScanError(room)
            ELSE IF ~(colon <= Len(s) /\ s[colon] = ":") THEN ScanError(room)
            ELSE AfterValue(key, JsonValue(s, SkipWhitespace(s, colon + 1), room))
        Key(key) == AfterKey(key, SkipWhitespace(s, key[1]))
    IN  Key(JsonString(s, i))

\* json: the array that opens at i
JsonArrayAt(s, i, room) ==
    LET At(j) ==
            IF j > Len(s) THEN NoParse
            ELSE IF s[j] = "]" THEN <<j + 1, <<"list", <<>>>>>>
            ELSE JsonElements(s, j, <<>>, room)
    IN  At(SkipWhitespace(s, i + 1))

\* the value v inside k arrays of one element
RECURSIVE Nested(_, _)
Nested(v, k) == IF k = 0 THEN v ELSE Nested(<<"list", <<v>>>>, k - 1)

\* json: the array that opens at i, room more objects and arrays fitting
\* inside it.  Brackets that open one right after the other are taken at
\* once: one too many of them is where RecursionError is raised, a failure of
\* the innermost array is the failure of all, the brackets that close right
\* after it close as many of the others, and what follows them is the end
\* of all of them or the failure of the next one.
JsonArray(s, i, room) ==
    LET After(inner, outer, closed, next) ==
            IF closed = outer THEN <<inner[1] + outer, Nested(inner[2], outer)>>
            ELSE IF next > Len(s) \/ s[next] \notin {",", "]"}
            THEN ScanError(room - outer + closed + 1)
            ELSE JsonArrayAt(s, i, room)
        Closing(inner, outer, closed) ==
            After(inner, outer, closed, SkipWhitespace(s, inner[1] + closed))
        Around(inner, outer) ==
            IF inner[1] = 0 THEN inner
            ELSE Closing(inner, outer, Min(outer, RunLen(s, inner[1], {"]"})))
        Run(outer) ==
            IF outer = 0 THEN JsonArrayAt(s, i, room)
            ELSE IF outer > room THEN TooDeep("array")
            ELSE Around(JsonArrayAt(s, i + outer, room - outer), outer)
    IN  Run(RunLen(s, i, {"["}) - 1)

\* json: the elements of an array from the value at i on, after those in acc
JsonElements(s, i, acc, room) ==
    LET AfterElement(next, elements) ==
            IF next > Len(s) THEN ScanError(room)
            ELSE IF s[next] = "]" THEN <<next + 1, <<"list", elements>>>>
            ELSE IF s[next] = ","
                 THEN JsonElements(s, SkipWhitespace(s, next + 1), elements, room)
            ELSE ScanError(room)
        AfterValue(value) ==
            IF value[1] = 0 THEN value
            ELSE AfterElement(SkipWhitespace(s, value[1]), Append(acc, value[2]))
    IN  AfterValue(JsonValue(s, i, room))

\* json: the value that starts at i, while room more objects and arrays can
\* be opened inside one another: the scanner enters a recursive call for each
\* object and each array, and RecursionError is raised where none is left
JsonValue(s, i, room) ==
    IF i > Len(s) THEN NoParse
    ELSE IF s[i] = "\""
         THEN LET Scanned(string) == IF string[1] = 0 THEN ScanError(room) ELSE string
              IN  Scanned(JsonString(s, i))
    ELSE IF s[i] = "{"
         THEN (IF room = 0 THEN TooDeep("object") ELSE JsonObject(s, i, room - 1))
    ELSE IF s[i] = "["
         THEN (IF room = 0 THEN TooDeep("array") ELSE JsonArray(s, i, room - 1))
    ELSE IF WordAtJson(s, i, <<"n", "u", "l", "l">>) THEN <<i + 4, <<"null">>>>
    ELSE IF WordAtJson(s, i, <<"t", "r", "u", "e">>) THEN <<i + 4, <<"bool", TRUE>>>>
    ELSE IF WordAtJson(s, i, <<"f", "a", "l", "s", "e">>) THEN <<i + 5, <<"bool", FALSE>>>>
    ELSE IF WordAtJson(s, i, <<"N", "a", "N">>) THEN <<i + 3, FloatNan>>
    ELSE IF WordAtJson(s, i, <<"I", "n", "f", "i", "n", "i", "t", "y">>)
         THEN <<i + 8, FloatInf(FALSE)>>
    ELSE IF WordAtJson(s, i, <<"-", "I", "n", "f", "i", "n", "i", "t", "y">>)
         THEN <<i + 9, FloatInf(TRUE)>>
    ELSE JsonNumber(s, i)

\* sys.getrecursionlimit(): the default of the interpreter, which nothing in
\* the repository sets
RecursionLimit == 1000

\* json.loads called from the frame that is the depth-th of the stack: the
\* objects and arrays it opens inside one another before RecursionError.
\* (Python 3.11 counts the calls of the scanner with the frames: loads, decode
\* and raw_decode lie between the caller and the scanner.)
MaxNesting(depth) == RecursionLimit - 4 - depth

\* json.loads(s) called from the frame that is the depth-th of the stack: the
\* value of the whole of s, <<"error">> for JSONDecodeError, <<"ValueError",
\* n>> for an integer of n digits, more than int() takes, and
\* <<"RecursionError", message>> when the calls of the scanner run out
JsonLoads(s, depth) ==
    LET Ended(value) ==
            IF value[1] = 0 THEN value[2]
            ELSE IF SkipWhitespace(s, value[1]) # Len(s) + 1 THEN <<"error">>
            ELSE value[2]
    IN  Ended(JsonValue(s, SkipWhitespace(s, 1), MaxNesting(depth)))

\* re.search(r'\{[\s\S]*\}', text): from the first opening brace to the last
\* closing brace after it; without a match the text "{}"
JsonStringOf(text) ==
    LET opening == { i \in 1..Len(text) : text[i] = "{" }
        closing == { j \in 1..Len(text) : text[j] = "}" /\ opening # {} /\ j > SetMin(opening) }
    IN  IF closing = {} THEN <<"{", "}">>
        ELSE SubSeq(text, SetMin(opening), SetMax(closing))

\* the pieces replies are built of: objects with avgPrice as an int, a string,
\* a float, null and an int of eleven digits, the empty object, prose, single
\* braces, objects with foundListings as an object and as an array, of
\* listings with and without url and of a number
ReplyFragments ==
    { <<"{", "\"", "a", "v", "g", "P", "r", "i", "c", "e", "\"", ":", "9", "0", "0", "0",
        "0", "0", "0", "}">>,
      <<"{", "\"", "a", "v", "g", "P", "r", "i", "c", "e", "\"", ":", " ", "\"", "9", "\"",
        "}">>,
      <<"{", "}">>,
      <<"P", "r", "e", "c", "i", "o", " ">>,
      <<"{">>,
      <<"}">>,
      <<"{", "\"", "f", "o", "u", "n", "d", "L", "i", "s", "t", "i", "n", "g", "s", "\"",
        ":", "{", "}", ",", " ", "\"", "a", "v", "g", "P", "r", "i", "c", "e", "\"", ":",
        "1", "2", "5", "0", "0", "0", "0", "}">>,
      <<"{", "\"", "a", "v", "g", "P", "r", "i", "c", "e", "\"", ":", "9", "0", "0", "0",
        "0", "0", "0", ".", "5", ",", "\"", "f", "o", "u", "n", "d", "L", "i", "s", "t",
        "i", "n", "g", "s", "\"", ":", "[", "{", "\"", "u", "r", "l", "\"", ":", "\"", "h",
        "t", "t", "p", "s", ":", "/", "/", "w", "w", "w", ".", "y", "a", "p", "o", ".", "c",
        "l", "/", "1", "\"", ",", "\"", "t", "i", "t", "l", "e", "\"", ":", "\"", "M", "a",
        "z", "d", "a", " ", "\\", "\"", "3", "\\", "\"", " ", "\\", "u", "0", "0", "e", "9",
        "\"", "}", ",", "{", "\"", "u", "r", "l", "\"", ":", "\"", "h", "t", "t", "p", "s",
        ":", "/", "/", "w", "w", "w", ".", "c", "a", "r", "s", ".", "c", "o", "m", "/", "1",
        "\"", "}", ",", "{", "\"", "u", "r", "l", "\"", ":", "\"", "\"", "}", "]", "}">>,
      <<"{", "\"", "a", "v", "g", "P", "r", "i", "c", "e", "\"", ":", "n", "u", "l", "l",
        ",", "\"", "m", "i", "n", "P", "r", "i", "c", "e", "\"", ":", "t", "r", "u", "e",
        "}">>,
      <<"{", "\"", "a", "v", "g", "P", "r", "i", "c", "e", "\"", ":", "1", "2", "3", "4",
        "5", "6", "7", "8", "9", "0", "1", ",", "\"", "f", "o", "u", "n", "d", "L", "i",
        "s", "t", "i", "n", "g", "s", "\"", ":", "[", "{", "\"", "u", "r", "l", "\"", ":",
        "5", "}", "]", "}">>,
      <<"{", "\"", "m", "a", "x", "P", "r", "i", "c", "e", "\"", ":", "1", "e", "3", ",",
        "\"", "f", "o", "u", "n", "d", "L", "i", "s", "t", "i", "n", "g", "s", "\"", ":",
        "[", "7", "]", "}">> }

\* a reply with an integer of more digits than int() takes
LongIntegerReply ==
    <<"{", "\"", "a", "v", "g", "P", "r", "i", "c", "e", "\"", ":">>
        \o SubSeq([i \in 1..(IntMaxStrDigits + 1) |-> "1"], 1, IntMaxStrDigits + 1) \o <<"}">>

\* the most pieces of a reply
MaxReplyPieces == 3

\* The place of the frame of get_vehicle_valuation on the stack: 2 when the
\* module is run as a script (line 172), more when get_market_price calls it
\* (app.py, line 92) under the frames of a test or of a server
StackDepths == {2, 6, 7, 24}

\* a reply cut off after it has opened n objects and arrays inside one
\* another: an object whose foundListings open n - 1 arrays, and the brace
\* the search of line 96 ends at
DeepReply(n) ==
    <<"{", "\"", "f", "o", "u", "n", "d", "L", "i", "s", "t", "i", "n", "g", "s", "\"", ":">>
        \o SubSeq([i \in 1..(n - 1) |-> "["], 1, n - 1) \o <<"}">>

\* the replies that open as many objects and arrays as json.loads takes at
\* one of the depths of the stack, and one more
DeepReplies ==
    { DeepReply(MaxNesting(depth) + more) : depth \in StackDepths, more \in {0, 1} }

\* response.text: None, or a text of pieces
ReplyTexts ==
    {None, <<LongIntegerReply>>}
        \cup { <<reply>> : reply \in DeepReplies }
        \cup { <<Concat(ps)>> : ps \in UNION { [1..n -> ReplyFragments] : n \in 0..MaxReplyPieces } }

\* chunk.web of a grounding chunk: its uri and its title, each None or a text
Web(uri, title) == <<[uri |-> uri, title |-> title]>>

UriChileautos == <<"h", "t", "t", "p", "s", ":", "/", "/", "w", "w", "w", ".", "c", "h", "i", "l", "e", "a", "u", "t", "o", "s", ".", "c", "l", "/", "1">>
UriYapo == <<"h", "t", "t", "p", "s", ":", "/", "/", "w", "w", "w", ".", "y", "a", "p", "o", ".", "c", "l", "/", "1">>
UriCars == <<"h", "t", "t", "p", "s", ":", "/", "/", "w", "w", "w", ".", "c", "a", "r", "s", ".", "c", "o", "m", "/", "1">>
UriMercadoLibre == <<"h", "t", "t", "p", "s", ":", "/", "/", "a", "u", "t", "o", ".", "m", "e", "r", "c", "a", "d", "o", "l", "i", "b", "r", "e", ".", "c", "o", "m", "/", "1">>
UriKavak == <<"h", "t", "t", "p", "s", ":", "/", "/", "w", "w", "w", ".", "k", "a", "v", "a", "k", ".", "c", "o", "m", "/", "m", "x">>

\* candidates[0].grounding_metadata.grounding_chunks: None (also for a
\* response without candidates or without grounding metadata), or the chunks
GroundingChunks ==
    { None,
      << <<[web |-> Web(<<UriChileautos>>, <<<<"A">>>>)]>> >>,
      << <<[web |-> Web(<<UriCars>>, <<<<"A">>>>)]>> >>,
      << <<[web |-> Web(<<UriYapo>>, None)], [web |-> Web(<<UriChileautos>>, <<<<"A">>>>)],
           [web |-> Web(<<UriChileautos>>, <<<<"B">>>>)], [web |-> Web(<<UriKavak>>, <<<<>>>>)]>> >>,
      << <<[web |-> None], [web |-> Web(<<UriMercadoLibre>>, <<<<"A">>>>)],
           [web |-> Web(<<UriYapo>>, <<<<"B">>>>)], [web |-> Web(<<UriKavak>>, <<<<"C">>>>)],
           [web |-> Web(None, <<<<"D">>>>)], [web |-> Web(<<<<>>>>, <<<<"E">>>>)]>> >> }

\* sub in s, for two texts
Contains(s, sub) ==
    \E i \in 1..(Len(s) - Len(sub) + 1) : SubSeq(s, i, i + Len(sub) - 1) = sub

\* Line 138: the texts one of which a uri that is kept holds
ChileanDomains ==
    << <<".", "c", "l">>,
       <<"m", "e", "r", "c", "a", "d", "o", "l", "i", "b", "r", "e">>,
       <<"c", "h", "i", "l", "e", "a", "u", "t", "o", "s">>,
       <<"y", "a", "p", "o">>,
       <<"k", "a", "v", "a", "k">>,
       <<"a", "u", "t", "o", "f", "a", "c", "t">>,
       <<"a", "u", "t", "o", "c", "o", "s", "m", "o", "s">> >>

\* Line 138: any(domain in uri for domain in [...])
IsChileanUri(uri) == \E k \in 1..Len(ChileanDomains) : Contains(uri, ChileanDomains[k])

\* data.get(key), None without the key
DictGet(data, key) ==
    IF \E m \in data[2] : m[1] = key THEN (CHOOSE m \in data[2] : m[1] = key)[2] ELSE None

KeyFoundListings == <<"f", "o", "u", "n", "d", "L", "i", "s", "t", "i", "n", "g", "s">>
KeyAvgPrice == <<"a", "v", "g", "P", "r", "i", "c", "e">>
KeyMinPrice == <<"m", "i", "n", "P", "r", "i", "c", "e">>
KeyMaxPrice == <<"m", "a", "x", "P", "r", "i", "c", "e">>
KeyUrl == <<"u", "r", "l">>
KeyTitle == <<"t", "i", "t", "l", "e">>

\* type(v).__name__ of a value of json
TypeName(v) ==
    CASE v[1] = "null" -> "NoneType"
      [] OTHER -> v[1]

\* bool(v) of a value of json
JsonTruthy(v) ==
    CASE v[1] = "null" -> FALSE
      [] v[1] = "bool" -> v[2]
      [] v[1] = "int" -> v[2] # PyInt(0)
      [] v[1] = "float" -> ~(v[2] = "finite" /\ v[4] = <<"0">>)
      [] v[1] = "str" -> v[2] # <<>>
      [] v[1] = "list" -> v[2] # <<>>
      [] v[1] = "dict" -> v[2] # {}

\* Lines 107-120: the sources of the grounding chunks that have a uri and a
\* title
SystemSources(resp) ==
    LET chunks == IF resp.chunks = None THEN <<>> ELSE Val(resp.chunks)
        kept == SelectSeq(chunks, LAMBDA chunk :
                    /\ chunk.web # None
                    /\ Val(chunk.web).uri # None /\ Val(Val(chunk.web).uri) # <<>>
                    /\ Val(chunk.web).title # None /\ Val(Val(chunk.web).title) # <<>>)
    IN  [k \in 1..Len(kept) |-> [title |-> <<"str", Val(Val(kept[k].web).title)>>,
                                 uri |-> <<"str", Val(Val(kept[k].web).uri)>>]]

\* Lines 122-129: the values data.get("foundListings", []) is a loop over,
\* None when it is not iterable: the characters of a string and the keys of
\* an object are strings
ListingsOf(data) ==
    LET found == DictGet(data, KeyFoundListings)
    IN  IF found = None THEN <<<<>>>>
        ELSE IF found[1] = "list" THEN <<found[2]>>
        ELSE IF found[1] = "str" THEN <<[k \in 1..Len(found[2]) |-> <<"str", <<found[2][k]>>>>]>>
        ELSE IF found[1] = "dict"
             THEN <<[k \in 1..Cardinality(found[2]) |-> <<"str", <<>>>>]>>
        ELSE None

\* Lines 122-129: the exception of the loop over the listings, None when it
\* ends: a value that is not iterable, or a listing that is not an object
ListingsError(data) ==
    LET Of(found) ==
            LET others == { k \in 1..Len(Val(found)) : Val(found)[k][1] # "dict" }
            IN  IF found = None
                THEN <<"'" \o TypeName(DictGet(data, KeyFoundListings))
                           \o "' object is not iterable">>
                ELSE IF others # {}
                THEN <<"'" \o TypeName(Val(found)[SetMin(others)])
                           \o "' object has no attribute 'get'">>
                ELSE None
    IN  Of(ListingsOf(data))

\* Lines 122-129: the sources of the listings with a url
ModelSources(data) ==
    LET with_url == SelectSeq(Val(ListingsOf(data)), LAMBDA listing :
                        DictGet(listing, KeyUrl) # None /\ JsonTruthy(DictGet(listing, KeyUrl)))
    IN  [k \in 1..Len(with_url) |->
            [title |-> IF DictGet(with_url[k], KeyTitle) = None
                       THEN <<"str", <<"L", "i", "s", "t", "a", "d", "o", " ", "V", "e", "h",
                                       "í", "c", "u", "l", "o">>>>
                       ELSE DictGet(with_url[k], KeyTitle),
             uri |-> DictGet(with_url[k], KeyUrl)]]

\* Lines 134-139: the exception of the loop over the sources, None when it
\* ends: a uri that is true and no string is not hashable, or no container
MergeError(all_sources) ==
    LET others == { k \in 1..Len(all_sources) :
                      JsonTruthy(all_sources[k].uri) /\ all_sources[k].uri[1] # "str" }
        uri == all_sources[SetMin(others)].uri
    IN  IF others = {} THEN None
        ELSE IF uri[1] \in {"list", "dict"} THEN <<"unhashable type: '" \o uri[1] \o "'">>
        ELSE <<"argument of type '" \o TypeName(uri) \o "' is not iterable">>

\* Lines 131-141: the sources that are kept: for each uri of a Chilean site
\* the first source with it, in the order of the sources
SourcesOf(all_sources) ==
    LET kept == { k \in 1..Len(all_sources) :
                    /\ JsonTruthy(all_sources[k].uri)
                    /\ IsChileanUri(all_sources[k].uri[2])
                    /\ \A l \in 1..(k - 1) :
                           JsonTruthy(all_sources[l].uri) =>
                               all_sources[l].uri[2] # all_sources[k].uri[2] }
        places == SelectSeq([k \in 1..Len(all_sources) |-> k], LAMBDA k : k \in kept)
    IN  [j \in 1..Len(places) |-> all_sources[places[j]]]

\* Lines 144-145: the exception of format(v, ','), None when there is none
FormatError(v) ==
    IF v = None \/ v[1] \in {"int", "float", "bool"} THEN None
    ELSE IF v[1] = "str" THEN <<"Cannot specify ',' with 's'.">>
    ELSE <<"unsupported format string passed to " \o TypeName(v) \o ".__format__">>

\* Lines 144-145: the exception of the prints of the average, the least and
\* the most price, in this order
FormatsWithComma(data) ==
    LET errors == <<FormatError(DictGet(data, KeyAvgPrice)), FormatError(DictGet(data, KeyMinPrice)),
                    FormatError(DictGet(data, KeyMaxPrice))>>
        First(failing) == IF failing = {} THEN None ELSE errors[SetMin(failing)]
    IN  First({ k \in 1..3 : errors[k] # None })

\* Lines 93-100: text = response.text or "{}", and the local data, the frame
\* of get_vehicle_valuation being the depth-th of the stack
DataOf(resp, depth) ==
    LET text == IF resp.text = None \/ resp.text = <<<<>>>> THEN <<"{", "}">> ELSE resp.text[1]
    IN  JsonLoads(JsonStringOf(text), depth)

\* a text of digits as one string
RECURSIVE StringOf(_)
StringOf(ds) == IF ds = <<>> THEN "" ELSE Head(ds) \o StringOf(Tail(ds))

\* Lines 154-158: the ValueError of the except clause of the try
ValuationError(message) == Raises(<<"No se pudo obtener la cotización: " \o message>>)

\* Lines 93-158: what the call makes of a response, its frame being the
\* depth-th of the stack.  RecursionError is no JSONDecodeError: the except
\* clause of line 154 has it.
ValuationOf(resp, depth) ==
    LET Merged(data, all_sources, merge_error, format_error) ==
            IF merge_error # None THEN ValuationError(Val(merge_error))
            ELSE IF format_error # None THEN ValuationError(Val(format_error))
            ELSE Returns([data |-> data, sources |-> SourcesOf(all_sources)])
        Listed(data, listings_error, all_sources) ==
            IF listings_error # None THEN ValuationError(Val(listings_error))
            ELSE Merged(data, all_sources, MergeError(all_sources), FormatsWithComma(data))
        Of(data) ==
            IF data[1] = "error"
            THEN ValuationError("Error al procesar los datos de la cotización.")
            ELSE IF data[1] = "ValueError"
            THEN ValuationError("Exceeds the limit (" \o StringOf(DigitsOf(IntMaxStrDigits))
                     \o " digits) for integer string conversion: value has "
                     \o StringOf(DigitsOf(data[2]))
                     \o " digits; use sys.set_int_max_str_digits() to increase the limit")
            ELSE IF data[1] = "RecursionError"
            THEN ValuationError(data[2])
            ELSE Listed(data, ListingsError(data), SystemSources(resp) \o ModelSources(data))
    IN  Of(DataOf(resp, depth))

ValuationIdle ==
    /\ api_key = FALSE
    /\ response = None
    /\ gemini_pc = "done"
    /\ valued = None
    /\ parsed = None
    /\ stack_depth = 0

ValuationInit ==
    /\ api_key \in BOOLEAN
    /\ response = None
    /\ gemini_pc = "start"
    /\ valued = None
    /\ parsed = None
    /\ stack_depth \in StackDepths

\* Lines 31-34: without an API key the call raises before the try.
MissingApiKey ==
    /\ gemini_pc = "start"
    /\ ~api_key
    /\ valued' = <<Raises(<<"Google API Key is missing. Set GOOGLE_API_KEY in .env">>)>>
    /\ gemini_pc' = "done"
    /\ UNCHANGED <<api_key, response, parsed, stack_depth>>
    /\ UNCHANGED <<pricingVars, quotaVars, handlerVars, resolverVars, normalizerVars, scraperVars>>

\* Lines 84-91: generate_content returns a response.
GenerateContent ==
    /\ gemini_pc = "start"
    /\ api_key
    /\ \E text \in ReplyTexts, chunks \in GroundingChunks :
          response' = <<[text |-> text, chunks |-> chunks]>>
    /\ gemini_pc' = "generated"
    /\ UNCHANGED <<api_key, valued, parsed, stack_depth>>
    /\ UNCHANGED <<pricingVars, quotaVars, handlerVars, resolverVars, normalizerVars, scraperVars>>

\* Lines 84-91, 154-158: generate_content raises, the except clause of the try
\* raises ValueError in its place.
GenerateContentRaises ==
    /\ gemini_pc = "start"
    /\ api_key
    /\ valued' = <<Raises(<<"No se pudo obtener la cotización: generate_content">>)>>
    /\ gemini_pc' = "done"
    /\ UNCHANGED <<api_key, response, parsed, stack_depth>>
    /\ UNCHANGED <<pricingVars, quotaVars, handlerVars, resolverVars, normalizerVars, scraperVars>>

\* Lines 84-91: generate_content neither returns nor raises.  The client of
\* line 36 is built without http_options and the call passes no timeout, so
\* nothing in the call ends the wait.
GenerateContentHangs ==
    /\ gemini_pc = "start"
    /\ api_key
    /\ gemini_pc' = "waiting"
    /\ UNCHANGED <<api_key, response, valued, parsed, stack_depth>>
    /\ UNCHANGED <<pricingVars, quotaVars, handlerVars, resolverVars, normalizerVars, scraperVars>>

\* Lines 93-158: the reply is taken apart and the call returns or raises.
ParseReply ==
    /\ gemini_pc = "generated"
    /\ valued' = <<ValuationOf(Val(response), stack_depth)>>
    /\ parsed' = LET Parsed(data) ==
                          IF data[1] \in {"error", "ValueError", "RecursionError"}
                          THEN None ELSE <<data>>
                  IN  Parsed(DataOf(Val(response), stack_depth))
    /\ gemini_pc' = "done"
    /\ UNCHANGED <<api_key, response, stack_depth>>
    /\ UNCHANGED <<pricingVars, quotaVars, handlerVars, resolverVars, normalizerVars, scraperVars>>

ValuationNext ==
    \/ MissingApiKey
    \/ GenerateContent
    \/ GenerateContentRaises
    \/ GenerateContentHangs
    \/ ParseReply

----------------------------------------------------------------------------
(* execution/scrape_patentechile.py and execution/scrape_volanteomaleta.py:  *)
(* get_car_info_by_plate over a browser                                      *)

BrowserProviders == {"scrape_patentechile", "scrape_volanteomaleta"}

\* the rows of a results table: a section header is a single cell with
\* colspan 2, a row of data has a label and a value
TableRows ==
    { [cells |-> <<<<"I", "n", "f", "o", "r", "m", "a", "c", "i", "o", "n", " ", "V", "e", "h",
          "i", "c", "u", "l", "a", "r">>>>, colspan |-> <<"2">>],
      [cells |-> <<<<"P", "a", "g", "o", "s">>>>, colspan |-> <<"2">>],
      [cells |-> <<<<"M", "a", "r", "c", "a">>, <<"M", "A", "Z", "D", "A">>>>, colspan |-> None],
      [cells |-> <<<<"A", "ñ", "o">>, <<" ", "2", "0", "0", "6">>>>, colspan |-> None],
      [cells |-> <<<<"A", "ñ", "o", " ", "d", "e", " ", "p", "a", "g", "o">>, <<"2", "0", "2",
          "5", " ", "(", "P", "A", "G", "O", " ", "T", "O", "T", "A", "L", ")">>>>,
          colspan |-> None],
      [cells |-> <<<<"A", "ñ", "o">>, <<"s", "/", "i">>>>, colspan |-> None] }

\* the most rows of a results table
MaxRows == 4

\* soup.find of the table: None, or a table of rows
Tables == {None} \cup { <<rs>> : rs \in UNION { [1..n -> TableRows] : n \in 0..MaxRows } }

\* re.search(r'\b(19|20)\d{2}\b', value): <<group(0)>>, None without a match
YearMatch(value) ==
    LET at == { i \in 1..Len(value) : YearAt(value, i) }
    IN  IF at = {} THEN None ELSE <<SubSeq(value, SetMin(at), SetMin(at) + 3)>>

\* truthiness of a field of the result: None and "" are falsy
TruthyField(x) == x # None /\ Val(x) # <<>>

\* scrape_patentechile, lines 135-138: the row is a section header
IsSectionHeader(r) == Len(r.cells) = 1 /\ r.colspan = <<"2">>

\* scrape_patentechile, lines 143-144: the label and the value of a row of data
PatenteLabel(r) == PyLower(SelectSeq(PyStrip(r.cells[1]), LAMBDA c : c # Nbsp))
RowValue(r) == PyStrip(r.cells[2])

\* scrape_patentechile, lines 141-160: what a row of data does to the result
PatenteRow(res, r, in_vehicle_section) ==
    LET label == PatenteLabel(r)
        value == RowValue(r)
    IN  IF Contains(label, <<"m", "a", "r", "c", "a">>) THEN [res EXCEPT !.make = <<value>>]
        ELSE IF Contains(label, <<"m", "o", "d", "e", "l", "o">>)
             THEN [res EXCEPT !.model = <<value>>]
        ELSE IF Contains(label, <<"a", "ñ", "o">>) /\ in_vehicle_section
             THEN (IF YearMatch(value) # None THEN [res EXCEPT !.year = YearMatch(value)]
                   ELSE res)
        ELSE IF Contains(label, <<"n", "o", "m", "b", "r", "e">>)
             THEN [res EXCEPT !.owner_name = <<value>>]
        ELSE IF Contains(label, <<"r", "u", "t">>) THEN [res EXCEPT !.owner_rut = <<value>>]
        ELSE res

\* scrape_patentechile, lines 130-160: the loop over the rows, from the k-th on
RECURSIVE PatenteRows(_, _, _, _)
PatenteRows(res, rows, k, in_vehicle_section) ==
    IF k > Len(rows) THEN res
    ELSE IF IsSectionHeader(rows[k])
         THEN PatenteRows(res, rows, k + 1,
                          Contains(PyLower(PyStrip(rows[k].cells[1])),
                                   <<"v", "e", "h", "i", "c", "u", "l", "a", "r">>))
    ELSE IF Len(rows[k].cells) = 2
         THEN PatenteRows(PatenteRow(res, rows[k], in_vehicle_section), rows, k + 1,
                          in_vehicle_section)
    ELSE PatenteRows(res, rows, k + 1, in_vehicle_section)

\* scrape_patentechile, lines 123-170: the result after the page is parsed
PatenteParse(res, tbl) ==
    IF tbl = None
    THEN [res EXCEPT !.error = <<"Results table not found. Check .tmp/selenium_page.html">>]
    ELSE LET got == PatenteRows(res, Val(tbl), 1, FALSE)
         IN  IF TruthyField(got.make) \/ TruthyField(got.model) \/ TruthyField(got.year)
             THEN [got EXCEPT !.success = TRUE]
             ELSE [got EXCEPT !.error =
                       <<"No vehicle data found in table. Check .tmp/selenium_page.html">>]

\* scrape_volanteomaleta, lines 118-126: what a row does to the result
VolanteRow(res, r) ==
    IF Len(r.cells) < 2 THEN res
    ELSE LET label == PyLower(PyStrip(r.cells[1]))
             val == PyStrip(r.cells[2])
             r1 == IF Contains(label, <<"m", "a", "r", "c", "a">>)
                   THEN [res EXCEPT !.make = <<val>>] ELSE res
             r2 == IF Contains(label, <<"m", "o", "d", "e", "l", "o">>)
                   THEN [r1 EXCEPT !.model = <<val>>] ELSE r1
             r3 == IF Contains(label, <<"a", "ñ", "o">>)
                   THEN [r2 EXCEPT !.year = <<val>>] ELSE r2
             r4 == IF Contains(label, <<"n", "o", "m", "b", "r", "e">>)
                   THEN [r3 EXCEPT !.owner = <<val>>] ELSE r3
         IN  IF Contains(label, <<"r", "u", "t">>) THEN [r4 EXCEPT !.rut = <<val>>] ELSE r4

\* scrape_volanteomaleta, lines 116-126: the loop over the rows, from the k-th on
RECURSIVE VolanteRows(_, _, _)
VolanteRows(res, rows, k) ==
    IF k > Len(rows) THEN res
    ELSE VolanteRows(VolanteRow(res, rows[k]), rows, k + 1)

\* scrape_volanteomaleta, lines 111-135: the result after the page is parsed
VolanteParse(res, tbl) ==
    LET got == IF tbl = None THEN res ELSE VolanteRows(res, Val(tbl), 1)
    IN  IF TruthyField(got.make)
        THEN [got EXCEPT !.success = TRUE]
        ELSE [got EXCEPT !.error = <<"Could not extract data (Table not found or empty)">>]

\* the dict result at the start of the call
InitialScrape(module, plate) ==
    IF module = "scrape_patentechile"
    THEN [success |-> FALSE, plate |-> PyStrip(PyUpper(plate)), make |-> None,
          model |-> None, year |-> None, owner_name |-> None, owner_rut |-> None,
          error |-> None]
    ELSE [success |-> FALSE, plate |-> PyStrip(PyUpper(plate)), make |-> None,
          model |-> None, year |-> None, owner |-> None, rut |-> None, error |-> None]

\* the prefix of the error message of the except clause
UnexpectedPrefix(module) ==
    IF module = "scrape_patentechile" THEN "Unexpected error: " ELSE "Scraper error: "

\* the plate of the call
ScrapedPlates == { <<" ", "l", "x", "b", "w", "6", "8">> }

ScraperIdle ==
    /\ scraper = "none"
    /\ scrape_plate = <<>>
    /\ scrape_pc = "done"
    /\ browser = "none"
    /\ quits = 0
    /\ table = None
    /\ scraped = None
    /\ scrape_out = None

ScraperInit ==
    /\ scraper \in BrowserProviders
    /\ scrape_plate \in ScrapedPlates
    /\ scrape_pc = "start"
    /\ browser = "none"
    /\ quits = 0
    /\ table = None
    /\ scraped = InitialScrape(scraper, scrape_plate)
    /\ scrape_out = None

\* The finally clause and what follows it: a driver that was started is quit,
\* and the call returns the result or lets the exception of its except
\* clause through.  scrape_patentechile calls driver.quit() outside any try
\* (line 179): when it raises, the call raises; scrape_volanteomaleta passes
\* over the exception (lines 143-146).
LeaveScraper(res, raised) ==
    /\ scraped' = res
    /\ browser' = IF browser = "open" THEN "quit" ELSE browser
    /\ quits' = IF browser = "open" THEN quits + 1 ELSE quits
    /\ \E quit_raises \in IF browser = "open" /\ scraper = "scrape_patentechile"
                          THEN BOOLEAN ELSE {FALSE} :
          scrape_out' = <<IF raised \/ quit_raises
                          THEN Raises(<<"WebDriverException">>) ELSE Returns(res)>>
    /\ scrape_pc' = "done"

\* the driver is started: webdriver.Chrome (scrape_patentechile, line 60),
\* uc.Chrome (scrape_volanteomaleta, line 52)
ScraperStartBrowser ==
    /\ scrape_pc = "start"
    /\ browser' = "open"
    /\ scrape_pc' = "browsing"
    /\ UNCHANGED <<scraper, scrape_plate, quits, table, scraped, scrape_out>>
    /\ UNCHANGED <<pricingVars, quotaVars, handlerVars, resolverVars, normalizerVars, valuationVars>>

\* the start of the driver raises: the except clause records the error, there
\* is no driver to quit.
ScraperBrowserFails ==
    /\ scrape_pc = "start"
    /\ LeaveScraper([scraped EXCEPT !.error = <<UnexpectedPrefix(scraper), "Chrome">>], FALSE)
    /\ UNCHANGED <<scraper, scrape_plate, table>>
    /\ UNCHANGED <<pricingVars, quotaVars, handlerVars, resolverVars, normalizerVars, valuationVars>>

\* a step with the driver raises (the page load, the search, the click, the
\* screenshot, the page source): the except clause records the error; in
\* scrape_volanteomaleta it also saves a screenshot (line 139), which succeeds.
ScraperStepRaises ==
    /\ scrape_pc = "browsing"
    /\ LeaveScraper([scraped EXCEPT !.error = <<UnexpectedPrefix(scraper), "step">>], FALSE)
    /\ UNCHANGED <<scraper, scrape_plate, table>>
    /\ UNCHANGED <<pricingVars, quotaVars, handlerVars, resolverVars, normalizerVars, valuationVars>>

\* scrape_volanteomaleta, lines 135-139: a step with the driver raises and the
\* screenshot of the except clause raises too (the session is gone): the
\* finally clause runs and the exception leaves the function.
VolanteScreenshotRaises ==
    /\ scrape_pc = "browsing"
    /\ scraper = "scrape_volanteomaleta"
    /\ LeaveScraper([scraped EXCEPT !.error = <<UnexpectedPrefix(scraper), "step">>], TRUE)
    /\ UNCHANGED <<scraper, scrape_plate, table>>
    /\ UNCHANGED <<pricingVars, quotaVars, handlerVars, resolverVars, normalizerVars, valuationVars>>

\* scrape_patentechile, lines 72-78 and 86-97: the search input or the search
\* button is not on the page, the call returns from within the try.
PatenteElementMissing ==
    /\ scrape_pc = "browsing"
    /\ scraper = "scrape_patentechile"
    /\ \E e \in { <<"Could not find search input field">>, <<"Could not find search button">> } :
          LeaveScraper([scraped EXCEPT !.error = e], FALSE)
    /\ UNCHANGED <<scraper, scrape_plate, table>>
    /\ UNCHANGED <<pricingVars, quotaVars, handlerVars, resolverVars, normalizerVars, valuationVars>>

\* the results page is loaded and parsed, and the call returns
ScraperParse ==
    /\ scrape_pc = "browsing"
    /\ \E tbl \in Tables :
          /\ table' = tbl
          /\ LeaveScraper(IF scraper = "scrape_patentechile" THEN PatenteParse(scraped, tbl)
                          ELSE VolanteParse(scraped, tbl), FALSE)
    /\ UNCHANGED <<scraper, scrape_plate>>
    /\ UNCHANGED <<pricingVars, quotaVars, handlerVars, resolverVars, normalizerVars, valuationVars>>

ScraperNext ==
    \/ ScraperStartBrowser
    \/ ScraperBrowserFails
    \/ ScraperStepRaises
    \/ VolanteScreenshotRaises
    \/ PatenteElementMissing
    \/ ScraperParse

----------------------------------------------------------------------------
(* The model name normalizer on its own *)

\* the pieces model names are built of: a model code, a further word, a trim
\* level with and without a space before it, a hyphen, an underscore, an
\* engine displacement
ModelPieces ==
    { <<"C", "X">>, <<" ", "5">>, <<" ", "l", "s">>, <<"l", "s">>, <<"-">>, <<"_">>,
      <<" ", "1", ".", "4">> }

\* the most pieces of a model name
MaxPieces == 3

ModelNames == { Concat(ps) : ps \in UNION { [1..n -> ModelPieces] : n \in 1..MaxPieces } }

NormalizerIdle ==
    /\ model_arg = <<>>
    /\ canonical = <<>>

NormalizerInit ==
    /\ model_arg \in ModelNames
    /\ canonical = <<>>

\* normalize_model_for_url is called on the model, then on what it returned
NormalizeModel ==
    /\ Len(canonical) < 2
    /\ canonical' = Append(canonical,
                           normalize_model_for_url(IF canonical = <<>> THEN model_arg
                                                   ELSE canonical[Len(canonical)]))
    /\ UNCHANGED model_arg
    /\ UNCHANGED <<pricingVars, quotaVars, handlerVars, resolverVars, valuationVars, scraperVars>>

NormalizerNext == NormalizeModel

----------------------------------------------------------------------------
(* Specifications *)

PricingIdle == market_price = None /\ pricing = None

QuotaIdle == QuotaInit /\ limit = 0 /\ ~supabase

PricingInit ==
    /\ market_price \in PriceInputs
    /\ pricing = None

CalculatePricing ==
    /\ pricing = None
    /\ pricing' = <<calculate_pricing(market_price)>>
    /\ UNCHANGED market_price
    /\ UNCHANGED <<quotaVars, handlerVars, resolverVars, normalizerVars, valuationVars, scraperVars>>

PricingNext == CalculatePricing

\* The pricing engine on its own: one call of calculate_pricing per input.
InitPricing ==
    /\ PricingInit
    /\ QuotaIdle /\ HandlerIdle /\ PlateIdle /\ MarketIdle /\ ParserIdle
    /\ NormalizerIdle /\ ValuationIdle /\ ScraperIdle

SpecPricing == InitPricing /\ [][PricingNext]_vars

\* The quota gate on its own: the callers of check_and_increment and the calendar.
InitQuota ==
    /\ QuotaInit
    /\ PricingIdle /\ HandlerIdle /\ PlateIdle /\ MarketIdle /\ ParserIdle
    /\ NormalizerIdle /\ ValuationIdle /\ ScraperIdle

SpecQuota == InitQuota /\ [][QuotaNext]_vars

\* The valuation request: one request through get_market_price.
Init ==
    /\ HandlerInit
    /\ PricingIdle /\ QuotaIdle /\ PlateIdle /\ MarketIdle /\ ParserIdle
    /\ NormalizerIdle /\ ValuationIdle /\ ScraperIdle

Next == HandlerNext

Spec == Init /\ [][Next]_vars

\* The plate resolver: one request through get_vehicle.
InitPlate ==
    /\ PlateInit
    /\ PricingIdle /\ QuotaIdle /\ HandlerIdle /\ MarketIdle /\ ParserIdle
    /\ NormalizerIdle /\ ValuationIdle /\ ScraperIdle

SpecPlate == InitPlate /\ [][PlateNext]_vars

\* The market price resolver: one call of search_market_price.
InitMarket ==
    /\ MarketInit
    /\ PricingIdle /\ QuotaIdle /\ HandlerIdle /\ PlateIdle /\ ParserIdle
    /\ NormalizerIdle /\ ValuationIdle /\ ScraperIdle

SpecMarket == InitMarket /\ [][MarketNext]_vars

\* The price parser on its own: the parses of one page text.
InitParser ==
    /\ ParserInit
    /\ PricingIdle /\ QuotaIdle /\ HandlerIdle /\ PlateIdle /\ MarketIdle
    /\ NormalizerIdle /\ ValuationIdle /\ ScraperIdle

SpecParser == InitParser /\ [][ParserNext]_vars

\* The model name normalizer on its own: a model normalized twice over.
InitNormalizer ==
    /\ NormalizerInit
    /\ PricingIdle /\ QuotaIdle /\ HandlerIdle /\ PlateIdle /\ MarketIdle
    /\ ParserIdle /\ ValuationIdle /\ ScraperIdle

SpecNormalizer == InitNormalizer /\ [][NormalizerNext]_vars

\* The valuation provider: one call of get_vehicle_valuation.
InitValuation ==
    /\ ValuationInit
    /\ PricingIdle /\ QuotaIdle /\ HandlerIdle /\ PlateIdle /\ MarketIdle
    /\ ParserIdle /\ NormalizerIdle /\ ScraperIdle

SpecValuation == InitValuation /\ [][ValuationNext]_vars

\* The endpoints of app.py: one request, to /api/vehicle/<plate> or to
\* /api/market-price.
InitApp ==
    /\ \/ PlateInit /\ HandlerIdle
       \/ PlateIdle /\ HandlerInit
    /\ PricingIdle /\ QuotaIdle /\ MarketIdle /\ ParserIdle /\ NormalizerIdle
    /\ ValuationIdle /\ ScraperIdle

AppNext ==
    \/ GetVehicle
    \/ GetVehicleRaised
    \/ MissingParameters
    \/ GetVehicleValuation
    \/ ValuationHangs
    \/ ValuationRaised
    \/ NoMarketPrice
    \/ PricingRaised
    \/ RespondWithPricing

SpecApp == InitApp /\ [][AppNext]_vars

\* The same, every step of a handler that can be taken being taken in the
\* end: the interpreter does not stop between two statements.
SpecAppLive == SpecApp /\ WF_vars(AppNext)

\* The browser plate providers: one call of get_car_info_by_plate of
\* scrape_patentechile or of scrape_volanteomaleta.
InitScraper ==
    /\ ScraperInit
    /\ PricingIdle /\ QuotaIdle /\ HandlerIdle /\ PlateIdle /\ MarketIdle
    /\ ParserIdle /\ NormalizerIdle /\ ValuationIdle

SpecScraper == InitScraper /\ [][ScraperNext]_vars

----------------------------------------------------------------------------
(* Claims about the pricing engine, checked under SpecPricing *)

Returned == pricing # None
Result == pricing[1]

\* L = floor(mp * 0.94645), that is L * 100000 <= mp * 94645 < (L + 1) * 100000:
\* divided by 5 and with mp = 20000 * a + b, 0 <= b * 18929 - 20000 * (L - 18929 * a) < 20000.
IsFloorOfTimes94645(L, mp) ==
    LET a == mp \div 20000
        b == mp % 20000
        rest == b * 18929 - 20000 * (L - 18929 * a)
    IN  0 <= rest /\ rest < 20000

\* C1: for every integer marketPrice > 8,000,000, calculate_pricing succeeds with
\* consignment_liquidation = floor(marketPrice * 0.94645) and
\* consignment_type = PERCENTAGE_BASED.
C1_PercentageTier ==
    (Returned /\ ~IsNone(market_price) /\ Val(market_price) > 8000000) =>
        /\ Result.success
        /\ Result.consignment_type = "PERCENTAGE_BASED"
        /\ ~IsNone(Result.consignment_liquidation)
        /\ IsFloorOfTimes94645(Val(Result.consignment_liquidation), Val(market_price))

\* C1 witness: 8,000,001, the first price of the percentage tier, was priced at
\* floor(7,571,600.94645) = 7,571,600.
C1_Witness ==
    /\ Returned
    /\ market_price = PyInt(8000001)
    /\ Result.consignment_liquidation = PyInt(7571600)

\* C2: for every integer marketPrice with 0 < marketPrice <= 8,000,000,
\* calculate_pricing succeeds with consignment_liquidation =
\* max(0, marketPrice - 428400) and consignment_type = FIXED_FEE.
C2_FixedFeeTier ==
    (Returned /\ ~IsNone(market_price)
        /\ 0 < Val(market_price) /\ Val(market_price) <= 8000000) =>
        /\ Result.success
        /\ Result.consignment_type = "FIXED_FEE"
        /\ Result.consignment_liquidation =
               PyInt(IF Val(market_price) - 428400 > 0
                     THEN Val(market_price) - 428400 ELSE 0)

\* C2 witness: a price below the fixed fee was priced, and its liquidation is 0.
C2_Witness ==
    /\ Returned
    /\ market_price = PyInt(419999)
    /\ Result.consignment_type = "FIXED_FEE"
    /\ Result.consignment_liquidation = PyInt(0)

\* C3: for every integer marketPrice > 0 the immediate offer is a non-null
\* integer multiple of 100,000 that differs from marketPrice * 0.52 by at most
\* 50,000 (in 25ths: |25 * offer - 13 * marketPrice| <= 1,250,000).
C3_OfferNearestMultiple ==
    (Returned /\ ~IsNone(market_price) /\ Val(market_price) > 0) =>
        /\ ~IsNone(Result.immediate_offer)
        /\ Val(Result.immediate_offer) % 100000 = 0
        /\ 25 * Val(Result.immediate_offer) - 13 * Val(market_price) <= 1250000
        /\ 13 * Val(market_price) - 25 * Val(Result.immediate_offer) <= 1250000

\* C3 witness: 9,999,999 * 0.52 = 5,199,999.48 was rounded up to 5,200,000.
C3_Witness ==
    /\ Returned
    /\ market_price = PyInt(9999999)
    /\ Result.immediate_offer = PyInt(5200000)

\* marketPrice * 0.52 lies exactly halfway between two multiples of 100,000.
IsTie(mp) == (13 * mp) % 2500000 = 1250000

\* C4: whenever marketPrice * 0.52 is exactly halfway between two multiples of
\* 100,000, the immediate offer is the larger of the two
\* (marketPrice * 0.52 + 50,000).
C4_TiesAwayFromZero ==
    (Returned /\ ~IsNone(market_price) /\ Val(market_price) > 0
        /\ IsTie(Val(market_price))) =>
        25 * Val(Result.immediate_offer) = 13 * Val(market_price) + 1250000

\* C5: for marketPrice None, zero or negative, calculate_pricing returns a
\* failure result: success = false, an error, market_price, immediate_offer and
\* consignment_liquidation all None, and no consignment_type.
C5_InvalidPriceFails ==
    (Returned /\ (IsNone(market_price) \/ Val(market_price) <= 0)) =>
        /\ Result.success = FALSE
        /\ "error" \in DOMAIN Result
        /\ Result.market_price = None
        /\ Result.immediate_offer = None
        /\ Result.consignment_liquidation = None
        /\ "consignment_type" \notin DOMAIN Result

\* C5 witness: a negative price was refused.
C5_Witness ==
    /\ Returned
    /\ market_price = PyInt(-1)
    /\ Result.success = FALSE

----------------------------------------------------------------------------
(* Claims about the valuation request, checked under Spec *)

\* C6: on every valuation request the quota gate's check_and_increment is
\* called before any price provider: every call of get_vehicle_valuation made
\* by get_market_price comes after a call of check_and_increment.
C6_GateBeforeProvider ==
    \A i \in 1..Len(trace) :
        trace[i] = "get_vehicle_valuation" =>
            \E j \in 1..(i - 1) : trace[j] = "check_and_increment"

----------------------------------------------------------------------------
(* Claims about the quota gate, checked under SpecQuota *)

\* A run with a configured, healthy store in which no two calls were ever
\* between their select and their write at one time.
Sequential == supabase /\ failures = 0 /\ max_in_flight <= 1

\* A call made for day d has ended, and it ended last.
Ended(d) == returned # None /\ Val(returned).day = d

\* The stored count and the outcomes of the calls of day d in a sequential
\* run: the day's row holds the number of calls admitted that day (no row
\* before the first, 1 after it, one more with each admission) and never more
\* than the limit; a call is refused only once `limit` calls were admitted, so
\* the first `limit` calls are admitted and every later one is refused.
SequentialDayOk(d) ==
    /\ api_usage[d] = IF admitted[d] = 0 THEN {} ELSE {admitted[d]}
    /\ \A c \in api_usage[d] : c <= limit
    /\ admitted[d] <= limit
    /\ (Ended(d) /\ Val(returned).outcome.kind = "raise") => admitted[d] = limit

\* C7 as stated: in a sequential run against a healthy store, for every
\* configured limit, the first request of a day sets the count to 1, each later
\* admission raises it by 1, the (limit+1)-th request is refused, the stored
\* count never exceeds limit and exactly limit requests are admitted.
C7_SequentialQuota_AnyLimit ==
    Sequential => \A d \in counted : SequentialDayOk(d)

\* C7 amended: the same, for every configured limit of at least 1.
C7_SequentialQuota ==
    (Sequential /\ limit >= 1) => \A d \in counted : SequentialDayOk(d)

\* C7 witness: with limit 2, two requests of day 1 were admitted, the row of
\* day 1 holds 2, and the third request was refused.
C7_Witness ==
    /\ Sequential
    /\ limit = 2
    /\ admitted[1] = 2
    /\ api_usage[1] = {2}
    /\ Ended(1)
    /\ Val(returned).outcome = Raises(LimitMessage)

\* The call that ended last had read a row at or over the limit.
ReadOverLimit ==
    /\ returned # None
    /\ Val(returned).response = "row"
    /\ Val(returned).current_count >= limit

\* C8: a call whose select finds today's counter at or over the limit raises
\* the limit error and never returns True, and a call raises only then, with
\* the limit error: no store failure reaches the caller as the limit error.
C8_OverLimitRaises ==
    /\ ReadOverLimit => Val(returned).outcome = Raises(LimitMessage)
    /\ (returned # None /\ Val(returned).outcome.kind = "raise") =>
           /\ ReadOverLimit
           /\ Val(returned).failed_at = "none"
           /\ Val(returned).outcome.value = LimitMessage

\* C9: a call made without a configured store, or whose select, insert or
\* update failed, returns True: nothing is raised to the caller.
C9_FailOpen ==
    returned # None =>
        /\ Val(returned).failed_at # "none" => Val(returned).outcome = Returns("True")
        /\ ~supabase => Val(returned).outcome = Returns("True")


\* C10 as stated: with a healthy store, the calls admitted on a day exceed the
\* limit by at most the number of calls that were in flight (between their
\* select and their write) at one time.
C10_ExcessWithinInFlight ==
    (supabase /\ failures = 0) =>
        \A d \in counted : admitted[d] <= limit + max_in_flight

\* C10 amended: with a healthy store and a limit of at least 1, the calls
\* admitted on a day exceed the limit by at most the number of calls of that
\* day that were in flight together with another call.
C10_ExcessWithinRaced ==
    (supabase /\ failures = 0 /\ limit >= 1) =>
        \A d \in counted : admitted[d] <= limit + raced[d]

\* C10 witness: more calls than the limit were admitted on day 1 with a
\* healthy store.
C10_Witness ==
    /\ supabase /\ failures = 0 /\ limit >= 1
    /\ admitted[1] > limit
    /\ raced[1] >= 1

----------------------------------------------------------------------------
(* Claims on the plate resolver, checked under SpecPlate *)

VehicleBody == Val(vehicle_http).body

\* The provider holds a record of the requested plate.
Holds(provider) ==
    IF provider = "vehicle_lookup"
    THEN PyStrip(PyUpper(plate_arg)) \in DOMAIN vehicle_db
    ELSE sites[provider] # None

RecordOf(provider) ==
    IF provider = "vehicle_lookup"
    THEN vehicle_db[PyStrip(PyUpper(plate_arg))]
    ELSE Val(sites[provider])

\* C11: the providers are tried in priority order up to the first success:
\* when the providers before B report not-found and B holds a valid record,
\* the answer is B's record with found = true, and the providers queried are
\* exactly those up to B.
C11_FirstSuccessWins ==
    vehicle_http # None =>
        \A b \in 1..Len(PlateProviders) :
            ( /\ Holds(PlateProviders[b])
              /\ \A a \in 1..(b - 1) : ~Holds(PlateProviders[a]) )
            => /\ VehicleBody.success
               /\ VehicleBody.make = RecordOf(PlateProviders[b]).make
               /\ VehicleBody.model = RecordOf(PlateProviders[b]).model
               /\ VehicleBody.year = RecordOf(PlateProviders[b]).year
               /\ lookups = SubSeq(PlateProviders, 1, b)

----------------------------------------------------------------------------
(* Claims on the market price resolver, checked under SpecMarket *)

\* the call has returned, through the finally clause
MarketReturned == strategy = "done" /\ driver = "quit"

ElementsOf(xs) == { xs[k] : k \in 1..Len(xs) }

\* the URL a strategy asks for
UrlOf(name) ==
    CASE name = 1 -> Url("autofact.cl", locals.model_url)
      [] name = 2 -> Url("autofact.cl", locals.model_simple)
      [] name = 3 -> Url("mercadolibre.cl", locals.model_url)
      [] name = 4 -> Url("chileautos.cl", locals.model_simple)

\* C12: the sources are asked in the order autofact.cl, autofact.cl with the
\* simplified model, mercadolibre.cl, chileautos.cl; the first source with a
\* candidate is the last one asked, and once the call has returned
\* result.source names it and the estimate is over its candidates.
C12_FirstSourceWins ==
    /\ Len(fetched) = Len(yields)
    /\ \A k \in 1..Len(yields) : fetched[k] = UrlOf(yields[k].strategy)
    /\ \A j, k \in 1..Len(yields) : j < k => yields[j].strategy < yields[k].strategy
    /\ \A k \in 1..Len(yields) : yields[k].prices # <<>> => k = Len(yields)
    /\ \A k \in 1..Len(yields) :
          (MarketReturned /\ yields[k].prices # <<>>) =>
              /\ result.success
              /\ result.source = <<yields[k].source>>
              /\ result.num_listings = Len(yields[k].prices)
    /\ (MarketReturned /\ result.success) =>
          (yields # <<>> /\ yields[Len(yields)].prices # <<>>)

C12_Witness ==
    /\ MarketReturned
    /\ Len(yields) = 3
    /\ result.source = <<"mercadolibre.cl">>
    /\ yields[1].prices = <<>> /\ yields[2].prices = <<>>

\* C13: a failure of one source never ends the loop over the sources: once
\* the browser has started, the call returns either with the candidates of a
\* source or after chileautos.cl, the last source, has been asked.
C13_FaultIsolation ==
    (MarketReturned /\ ~result.success) =>
        \E k \in 1..Len(yields) : yields[k].strategy = 4

\* 8,000,000 * 0.88^age, without its fraction, for the ages 0 to 15
DepreciationCurve ==
    <<8000000, 7040000, 6195200, 5451776, 4797562, 4221855, 3715232, 3269404,
      2877076, 2531827, 2228007, 1960646, 1725369, 1518324, 1336125, 1175790>>

\* C14: when every source has yielded zero candidates the call returns an
\* estimate of the depreciation fallback, not a failure: estimated = true,
\* num_listings = 0 and the price max(1,500,000, 8,000,000 * 0.88^age), never
\* below 1,500,000.
C14_DepreciationFallback ==
    (MarketReturned /\ \A k \in 1..Len(yields) : yields[k].prices = <<>>) =>
        /\ result.success
        /\ "estimated" \in DOMAIN result /\ result.estimated = TRUE
        /\ "num_listings" \in DOMAIN result /\ result.num_listings = 0
        /\ ~IsNone(result.average_price)
        /\ Val(result.average_price) >= 1500000
        /\ \/ Val(result.average_price) = 1500000
           \/ \E age \in 0..15 : Val(result.average_price) = DepreciationCurve[age + 1]

\* the year and the amount the text of a listing shows
YearShown(text) == ListingYear(text)
AmountShown(text) ==
    IF IsNone(ListingPriceDigits(text)) THEN None
    ELSE PyIntOfDigits(Val(ListingPriceDigits(text)))

\* strategy 3 has gone over the listings of its page
ListingsParsed == strategy = "prices"

TargetYear == PyIntOfText(query.year)

\* C15: with a target year Y that int() takes, every candidate of
\* MercadoLibre is the amount of a listing whose year lies in Y-2..Y+2.
C15_YearTolerance ==
    (ListingsParsed /\ ~IsNone(TargetYear)) =>
        \A p \in ElementsOf(prices) :
            \E k \in 1..Len(listings) :
                /\ AmountShown(listings[k]) = PyInt(p)
                /\ ~IsNone(YearShown(listings[k]))
                /\ PyLeq(PyAdd(TargetYear, -2), YearShown(listings[k]))
                /\ PyLeq(YearShown(listings[k]), PyAdd(TargetYear, 2))

\* a listing of 2015 with an amount in the band is left out for the target
\* year 2018 while a listing of 2016 contributes
C15_Witness ==
    /\ ListingsParsed
    /\ TargetYear = PyInt(2018)
    /\ prices = <<9000000>>
    /\ \E k \in 1..Len(listings) :
          YearShown(listings[k]) = PyInt(2015) /\ AmountShown(listings[k]) = PyInt(12500000)
    /\ \E k \in 1..Len(listings) :
          YearShown(listings[k]) = PyInt(2016) /\ AmountShown(listings[k]) = PyInt(9000000)

\* the amount of the listing is a candidate as far as digits and band go
IsPlausibleAmount(text) ==
    /\ ~IsNone(ListingPriceDigits(text))
    /\ Len(Val(ListingPriceDigits(text))) >= 7
    /\ ~IsNone(AmountShown(text)) /\ ~IsBig(AmountShown(text))
    /\ 1500000 <= Val(AmountShown(text)) /\ Val(AmountShown(text)) <= 100000000

\* C16 as stated: with a year that int() does not take, strategy 3 does not
\* raise and no plausible amount is left out on account of the year of its
\* listing, whatever that year is.
C16_FilterDisabled ==
    (ListingsParsed /\ IsNone(TargetYear)) =>
        /\ ~yields[Len(yields)].raised
        /\ \A k \in 1..Len(listings) :
              (~IsNone(YearShown(listings[k])) /\ IsPlausibleAmount(listings[k]))
              => Val(AmountShown(listings[k])) \in ElementsOf(prices)

\* C16 amended: with a year that int() does not take, strategy 3 does not
\* raise and the window is 1990..2030: no plausible amount of a listing whose
\* year lies in 1990..2030 is left out.
C16_DefaultWindow ==
    (ListingsParsed /\ IsNone(TargetYear)) =>
        /\ ~yields[Len(yields)].raised
        /\ \A k \in 1..Len(listings) :
              ( /\ ~IsNone(YearShown(listings[k]))
                /\ 1990 <= Val(YearShown(listings[k]))
                /\ Val(YearShown(listings[k])) <= 2030
                /\ IsPlausibleAmount(listings[k]) )
              => Val(AmountShown(listings[k])) \in ElementsOf(prices)

\* the year is one int() does not take ("dos mil", or a text of more digits
\* than IntMaxStrDigits); a listing of 1990 contributes, one of 1989 does not
C16_Witness ==
    /\ ListingsParsed
    /\ IsNone(TargetYear)
    /\ prices = <<12500000>>
    /\ \E k \in 1..Len(listings) :
          YearShown(listings[k]) = PyInt(1990) /\ AmountShown(listings[k]) = PyInt(12500000)
    /\ \E k \in 1..Len(listings) :
          YearShown(listings[k]) = PyInt(1989) /\ AmountShown(listings[k]) = PyInt(9000000)

\* C17: a returned estimate with num_listings > 0 has
\* 0 < min_price <= average_price <= max_price.
C17_AverageWithinRange ==
    (strategy = "done" /\ "num_listings" \in DOMAIN result /\ result.num_listings > 0) =>
        /\ Val(result.min_price) <= Val(result.average_price)
        /\ Val(result.average_price) <= Val(result.max_price)
        /\ Val(result.average_price) > 0

C17_Witness ==
    /\ strategy = "done"
    /\ result.success
    /\ result.num_listings = 2
    /\ Val(result.min_price) < Val(result.average_price)
    /\ Val(result.average_price) < Val(result.max_price)

\* result.get("estimated", False)
Estimated(res) == IF "estimated" \in DOMAIN res THEN res.estimated ELSE FALSE

\* the amounts the winning source appended, each taken once
WinningCandidates == ElementsOf(yields[Len(yields)].appended)

\* C18: the estimate is over the distinct candidates of the winning source:
\* num_listings counts them, min_price and max_price are their extremes,
\* average_price is their mean without its fraction, and the estimate is not
\* flagged estimated; the candidates 9,000,000, 9,400,000 and 8,800,000 give
\* average_price = 9,066,666 and num_listings = 3.
C18_AggregateOfDistinct ==
    (MarketReturned /\ result.success) =>
        /\ result.num_listings = Cardinality(WinningCandidates)
        /\ \A c \in WinningCandidates :
              Val(result.min_price) <= c /\ c <= Val(result.max_price)
        /\ Val(result.min_price) \in WinningCandidates
        /\ Val(result.max_price) \in WinningCandidates
        /\ Val(result.average_price) * result.num_listings
              <= SumSeq(SortedSeq(WinningCandidates))
        /\ SumSeq(SortedSeq(WinningCandidates))
              < (Val(result.average_price) + 1) * result.num_listings
        /\ ~Estimated(result)
        /\ WinningCandidates = {9000000, 9400000, 8800000} =>
              (Val(result.average_price) = 9066666 /\ result.num_listings = 3)

C18_Witness ==
    /\ MarketReturned
    /\ result.success
    /\ WinningCandidates = {9000000, 9400000, 8800000}
    /\ Len(yields[Len(yields)].appended) = 3
    /\ result.average_price = PyInt(9066666)
    /\ result.num_listings = 3

----------------------------------------------------------------------------
(* Claims on the price parser, checked under SpecParser *)

\* C19: the parser returns only amounts from 1,500,000 to 100,000,000, and
\* each amount once, however often and whatever else the text shows.
C19_InBandOnce ==
    \A n \in 1..Len(parses) :
        /\ \A k \in 1..Len(parses[n]) :
              1500000 <= parses[n][k] /\ parses[n][k] <= 100000000
        /\ \A j, k \in 1..Len(parses[n]) : j # k => parses[n][j] # parses[n][k]

\* "$9.000.000$ 9.000.000$100.000.001": one amount twice and one above the band
C19_Witness ==
    /\ page_text = Concat(<<<<"$", "9", ".", "0", "0", "0", ".", "0", "0", "0">>, <<"$", " ", "9", ".", "0", "0", "0", ".", "0", "0", "0">>, <<"$", "1", "0", "0", ".", "0", "0", "0", ".", "0", "0", "1">>>>)
    /\ parses = << <<9000000>> >>

\* the texts that show $1.200.000 and $999, and prose at most
TwoAmountTexts ==
    { Concat(fs) : fs \in { gs \in UNION { [1..k -> {<<"$", "1", ".", "2", "0", "0", ".", "0", "0", "0">>, <<"$", "9", "9", "9">>, <<" ", "P", "r", "e", "c", "i", "o", " ">>}] : k \in 2..3 } :
                               \E i, j \in 1..Len(gs) : gs[i] = <<"$", "1", ".", "2", "0", "0", ".", "0", "0", "0">> /\ gs[j] = <<"$", "9", "9", "9">> } }

\* C20 as stated: a text with $1.200.000 and $999 yields the candidates
\* {1200000}, at every parse.
C20_YieldsTheAmount ==
    page_text \in TwoAmountTexts =>
        \A n \in 1..Len(parses) : parses[n] = <<1200000>>

\* C20 amended: a text with $1.200.000 and $999 yields no candidate, at every
\* parse: 1,200,000 lies below the band and $999 is no grouped amount.
C20_YieldsNothing ==
    page_text \in TwoAmountTexts =>
        \A n \in 1..Len(parses) : parses[n] = <<>>

C20_Witness ==
    /\ page_text = Concat(<<<<"$", "1", ".", "2", "0", "0", ".", "0", "0", "0">>, <<"$", "9", "9", "9">>>>)
    /\ parses = << <<>>, <<>> >>

----------------------------------------------------------------------------
(* Claims on the model name normalizer, checked under SpecNormalizer *)

\* C21: normalize_model_for_url is idempotent: normalizing what it returned
\* returns it unchanged, for every model, with engine displacements, trim
\* levels, hyphens and more than two words.
C21_Idempotent ==
    Len(canonical) = 2 => canonical[2] = canonical[1]

----------------------------------------------------------------------------
(* Claims on the valuation provider, checked under SpecValuation *)

\* the position of the brace that closes the one opened before i, depth
\* braces being open at i; 0 without one
RECURSIVE ClosingBrace(_, _, _)
ClosingBrace(s, i, depth) ==
    IF i > Len(s) THEN 0
    ELSE IF s[i] = "{" THEN ClosingBrace(s, i + 1, depth + 1)
    ELSE IF s[i] = "}" THEN (IF depth = 1 THEN i ELSE ClosingBrace(s, i + 1, depth - 1))
    ELSE ClosingBrace(s, i + 1, depth)

\* <<the first balanced {...} block of a text>>, None without one
FirstBalancedBlock(s) ==
    LET starts == { i \in 1..Len(s) : s[i] = "{" /\ ClosingBrace(s, i + 1, 1) # 0 }
    IN  IF starts = {} THEN None
        ELSE <<SubSeq(s, SetMin(starts), ClosingBrace(s, SetMin(starts) + 1, 1))>>

ReplyText == Val(response).text

\* C22: whenever the first balanced {...} block of the reply is a well-formed
\* JSON object, that object is the data the valuation has parsed, whatever
\* precedes or follows the block.
C22_FirstBalancedBlockParsed ==
    (gemini_pc = "done" /\ response # None /\ ReplyText # None) =>
        LET block == FirstBalancedBlock(Val(ReplyText))
        IN  (block # None /\ JsonLoads(Val(block), stack_depth)[1] = "dict") =>
                parsed = <<JsonLoads(Val(block), stack_depth)>>

----------------------------------------------------------------------------
(* Claims on the endpoints of app.py, checked under SpecApp *)

\* a request to /api/vehicle/<plate>, or else one to /api/market-price
IsPlateRequest == plate_arg # <<>>

\* the JSON body the request was answered with
AnswerOf == IF IsPlateRequest THEN Val(vehicle_http).body ELSE Val(http)

RequestEnded == IF IsPlateRequest THEN vehicle_http # None ELSE http # None

\* a body with a success flag, and with an error message when the flag is false
IsStructured(body) ==
    /\ "success" \in DOMAIN body
    /\ body.success \in BOOLEAN
    /\ ~body.success => ("error" \in DOMAIN body /\ body.error # None /\ body.error # <<"">>)

\* C23: every plate request and every valuation request ends in a structured
\* result with a success flag, and with an error message when success is
\* false.
C23_StructuredResult ==
    RequestEnded => IsStructured(AnswerOf)

\* C23 witness: a valuation whose avgPrice is NaN made calculate_pricing raise
\* and the request was answered 500 with the message of the exception.
C23_Witness ==
    /\ RequestEnded
    /\ ~IsPlateRequest
    /\ valuation # None
    /\ Val(valuation).kind = "return"
    /\ GetAvgPrice(Val(valuation).data, 0) = <<"nan">>
    /\ trace = <<"get_vehicle_valuation", "calculate_pricing">>
    /\ Val(http).status = 500
    /\ ~AnswerOf.success

----------------------------------------------------------------------------
(* Claims on the endpoints of app.py, checked under SpecAppLive *)

\* C24: every provider call carries a timeout, so a provider that neither
\* returns nor raises is given up after a bounded wait and every plate or
\* price resolution returns in the end: every request is answered.
C24_AlwaysAnswered == <>RequestEnded

----------------------------------------------------------------------------
(* Further claims about the valuation request, checked under Spec *)

\* a year parameter that reads as a number
IsNumericYear(y) == y \in { <<"2018">> }

\* a request without make, model or year, or with a year that is no number
InvalidInput ==
    \/ ~TruthyText(args.make)
    \/ ~TruthyText(args.model)
    \/ ~TruthyText(args.year)
    \/ ~IsNumericYear(args.year)

\* C25: a valuation request with invalid input (a missing make, model or
\* year, or a non-numeric year) is rejected with a structured invalid-input
\* error and no price provider is attempted for it.
C25_InvalidInputRejected ==
    InvalidInput =>
        /\ trace = <<>>
        /\ http # None => (Val(http).status = 400 /\ ~Val(http).success)

----------------------------------------------------------------------------
(* Claims on the browser plate providers, checked under SpecScraper *)

\* the i-th row lies in the vehicle-data section: the last section header
\* before it exists and contains 'vehicular'
InVehicleSection(rows, i) ==
    \E h \in 1..(i - 1) :
        /\ IsSectionHeader(rows[h])
        /\ Contains(PyLower(PyStrip(rows[h].cells[1])),
                    <<"v", "e", "h", "i", "c", "u", "l", "a", "r">>)
        /\ \A j \in (h + 1)..(i - 1) : ~IsSectionHeader(rows[j])

\* a row of data labelled with the year
IsYearRow(r) ==
    /\ ~IsSectionHeader(r)
    /\ Len(r.cells) >= 2
    /\ Contains(PyLower(PyStrip(r.cells[1])), <<"a", "ñ", "o">>)

\* the call parsed a results table and returned
ParsedTable == scrape_pc = "done" /\ table # None /\ scrape_out # None

\* C26: in the browser plate providers the year of the record, when set, was
\* set by a row labelled 'año' inside the vehicle-data section (after a
\* section header containing 'vehicular' and before the next section header);
\* year rows of other sections, or before any header, never set it.
C26_YearOnlyInVehicleSection ==
    (ParsedTable /\ scraped.year # None) =>
        \E i \in 1..Len(Val(table)) :
            /\ IsYearRow(Val(table)[i])
            /\ InVehicleSection(Val(table), i)
            /\ scraped.year \in {YearMatch(RowValue(Val(table)[i])),
                                 <<RowValue(Val(table)[i])>>}

----------------------------------------------------------------------------
(* Further claims about the quota gate, checked under SpecQuota *)

\* a call against the store ended last and no store operation of it failed
EndedHealthy ==
    /\ returned # None
    /\ supabase
    /\ Val(returned).failed_at = "none"

\* C27: quota counters are per calendar day.  A call is refused only on a day
\* that has a counter, so the first request of a day is admitted whatever the
\* counters of other days hold; the first admission of a day leaves that day's
\* counter at 1; and a step of check_and_increment changes the counter of no
\* day but the one its call read as today.
C27_PerDayCounters ==
    /\ [](EndedHealthy =>
            LET r == Val(returned)
            IN  /\ r.outcome.kind = "raise" => api_usage[r.day] # {}
                /\ (r.outcome.kind = "return" /\ admitted[r.day] = 1) =>
                       api_usage[r.day] = {1})
    /\ [][\A d \in Days :
              api_usage'[d] # api_usage[d] =>
                  \E p \in Callers : today[p] = d /\ InFlight(p) /\ pc'[p] = "idle"]_vars

\* C27 witness: the counter of day 1 stands at the limit, and the first
\* request of day 2 was admitted and left the counter of day 2 at 1.
C27_Witness ==
    /\ EndedHealthy
    /\ limit >= 1
    /\ api_usage[1] = {limit}
    /\ Val(returned).day = 2
    /\ admitted[2] = 1
    /\ Val(returned).outcome = Returns("True")
    /\ api_usage[2] = {1}

\* the step ends a call of p with the limit error
Rejects(p) ==
    /\ pc[p] # "idle"
    /\ pc'[p] = "idle"
    /\ returned' # None
    /\ Val(returned').outcome = Raises(LimitMessage)

\* the step ends a call that was in flight with True
Admits(p) ==
    /\ InFlight(p)
    /\ pc'[p] = "idle"
    /\ returned' # None
    /\ Val(returned').outcome = Returns("True")

\* C28: a call rejected for having reached the limit leaves the stored
\* counters as they were, and the counters change only in a step that admits
\* a call; so after any number of consecutive rejected calls the stored count
\* is what it was before the first of them.
C28_RejectionLeavesCounter ==
    [][/\ (\E p \in Callers : Rejects(p)) => api_usage' = api_usage
       /\ api_usage' # api_usage => \E p \in Callers : Admits(p)]_vars

\* C28 witness: on day 2 the counter stands at the limit of 2 after two
\* admissions, and the call that ended last read it and was rejected.
C28_Witness ==
    /\ returned # None
    /\ supabase
    /\ limit = 2
    /\ Val(returned).day = 2
    /\ Val(returned).response = "row"
    /\ Val(returned).current_count = 2
    /\ Val(returned).outcome = Raises(LimitMessage)
    /\ admitted[2] = 2
    /\ api_usage[2] = {2}

----------------------------------------------------------------------------
(* A further claim about the pricing engine, checked under SpecPricing *)

\* consignment_liquidation of the positive price p
LiquidationOf(p) == Val(calculate_consignment_liquidation(PyInt(p)))

\* prices every priced input is compared with: the least price, the fixed fee
\* and the tier threshold with their successors, the greatest price
LiquidationCheckpoints ==
    {1, LOW_TIER_FIXED_FEE, LOW_TIER_FIXED_FEE + 1, CONSIGNMENT_THRESHOLD,
     CONSIGNMENT_THRESHOLD + 1, MaxPriceK * 10000 + 2}

\* C29: consignment_liquidation is non-decreasing in the market price: the
\* liquidation of a priced input is at least that of the price just below it,
\* at most that of the price just above it, and in order with the liquidation
\* of every checkpoint, the two sides of the tier boundary among them.
C29_LiquidationMonotone ==
    (pricing # None /\ Val(pricing).success) =>
        LET q == Val(market_price)
            lq == Val(Val(pricing).consignment_liquidation)
        IN  /\ q > 1 => LiquidationOf(q - 1) <= lq
            /\ lq <= LiquidationOf(q + 1)
            /\ \A p \in LiquidationCheckpoints :
                   /\ p < q => LiquidationOf(p) <= lq
                   /\ q < p => lq <= LiquidationOf(p)

\* C29 witness: 8,000,001 was priced in the percentage tier, at no less than
\* the 7,571,600 of the fixed-fee tier at 8,000,000.
C29_Witness ==
    /\ pricing # None
    /\ market_price = PyInt(CONSIGNMENT_THRESHOLD + 1)
    /\ Val(pricing).consignment_type = "PERCENTAGE_BASED"
    /\ Val(pricing).consignment_liquidation = PyInt(7571600)
    /\ LiquidationOf(CONSIGNMENT_THRESHOLD) = 7571600

\* a call of get_car_info_by_plate of a browser provider is over
ScraperLeft == scraper \in BrowserProviders /\ scrape_pc = "done"

\* C30: on every path out of the browser-based get_car_info_by_plate (the
\* page parsed, an early return on a missing page element, an exception at
\* any step) a driver that was started has been quit exactly once, none is
\* quit that was not started, and the function returns its result dict
\* rather than raising.
C30_QuitOnceAndReturn ==
    ScraperLeft =>
        /\ browser # "open"
        /\ quits = (IF browser = "quit" THEN 1 ELSE 0)
        /\ scrape_out # None
        /\ Val(scrape_out).kind = "return"
        /\ Val(scrape_out).value = <<scraped>>

====
